---- MODULE Spec2Model ----
(***************************************************************************)
(* A model of the BEE orchestration core: the graph store (the Cypher      *)
(* transactions of neo4j_cypher.py), the workflow manager's update         *)
(* handler, the task manager's tick and the scheduling algorithms.         *)
(***************************************************************************)
EXTENDS Integers, Sequences, FiniteSets, TLC

NULL == "null"

\* ------------------------------------------------------------------------
\* Workflow descriptions handed to the parser (the program's input).
\* ------------------------------------------------------------------------

TaskIds == {"A", "B", "C"}

\* chain: win -> A -> B -> C
\* fork : A and B are entry tasks, C consumes A's output (input has a default)
\* join : A and B are entry tasks, C consumes both (second input has a default)
\* noin : A is an entry task, B declares no input port, C consumes A's output
Shapes == {"chain", "fork", "join", "noin"}

\* both : A and B are entry tasks, C consumes both and both inputs of C have
\*        a default
JobShapes == Shapes \cup {"both"}

In(id, source, default) == [id |-> id, source |-> source, default |-> default]

Out(id, glob) == [id |-> id, glob |-> glob]

WfInputIds == {"win"}

TaskInputs(w, t) ==
    CASE w = "chain" /\ t = "A" -> {In("A.in", "win", NULL)}
      [] w = "chain" /\ t = "B" -> {In("B.in", "A.out", NULL)}
      [] w = "chain" /\ t = "C" -> {In("C.in", "B.out", NULL)}
      [] w = "fork" /\ t = "A" -> {In("A.in", "win", NULL)}
      [] w = "fork" /\ t = "B" -> {In("B.in", "win", "dflt")}
      [] w = "fork" /\ t = "C" -> {In("C.in", "A.out", "dflt")}
      [] w = "join" /\ t = "A" -> {In("A.in", "win", NULL)}
      [] w = "join" /\ t = "B" -> {In("B.in", "win", NULL)}
      [] w = "join" /\ t = "C" -> {In("C.in1", "A.out", NULL), In("C.in2", "B.out", "dflt")}
      [] w = "noin" /\ t = "A" -> {In("A.in", "win", NULL)}
      [] w = "noin" /\ t = "B" -> {}
      [] w = "noin" /\ t = "C" -> {In("C.in", "A.out", NULL)}
      [] w = "both" /\ t = "A" -> {In("A.in", "win", NULL)}
      [] w = "both" /\ t = "B" -> {In("B.in", "win", NULL)}
      [] w = "both" /\ t = "C" -> {In("C.in1", "A.out", "d1"), In("C.in2", "B.out", "d2")}

TaskOutputs(w, t) ==
    CASE t = "A" -> {Out("A.out", "a.txt")}
      [] t = "B" -> {Out("B.out", NULL)}
      [] t = "C" -> {Out("C.out", NULL)}

\* The order in which the parser meets the steps when they are written
\* producers first.
DefinitionOrder == <<"A", "B", "C">>

\* ------------------------------------------------------------------------
\* Task and workflow states.
\* ------------------------------------------------------------------------

Terminal == {"COMPLETED", "FAILED", "CANCELLED"}

Active == {"WAITING", "READY", "RUNNING", "PAUSED"}

TaskState == {"WAITING", "READY", "RUNNING", "PAUSED", "COMPLETED", "FAILED",
              "CANCELLED", "RESTARTED"}

\* ------------------------------------------------------------------------
\* The graph store.  A database value g is a record:
\*   tasks   : the ids of the Task nodes
\*   meta    : task id -> state of its Metadata node
\*   inputs  : the Input nodes  [task, id, source, default, value]
\*   outputs : the Output nodes [task, id, glob, value]
\*   depends : the DEPENDS edges <<consumer, producer>>
\*   begins  : the tasks with a BEGINS edge to the Workflow node
\*   restarts: the child-of edges <<old task, restarted task>>
\*   wfid    : the workflow id (a generation counter)
\*   ntask   : task id -> number of Task nodes carrying that id
\*   nmeta   : task id -> number of Metadata nodes describing those nodes
\*   wfstate : the state of the Workflow node
\* meta[t] is the state of the Metadata node created first for t.
\* ------------------------------------------------------------------------

EmptyGdb ==
    [tasks |-> {}, meta |-> <<>>, inputs |-> {}, outputs |-> {},
     depends |-> {}, begins |-> {}, restarts |-> {}, wfid |-> 0,
     ntask |-> <<>>, nmeta |-> <<>>, wfstate |-> "RUNNING"]

InputsOfTask(g, t) == {i \in g.inputs : i.task = t}

OutputsOfTask(g, t) == {o \in g.outputs : o.task = t}

\* The number of nodes a counter c records for the id t.
Count(c, t) == IF t \in DOMAIN c THEN c[t] ELSE 0

\* CREATE (t:Task): a new node on every call.
create_task(g, t) ==
    [g EXCEPT !.tasks = @ \cup {t},
              !.ntask = (t :> Count(@, t) + 1) @@ @]

create_task_input_nodes(g, w, t) ==
    [g EXCEPT !.inputs = @ \cup
        {[task |-> t, id |-> i.id, source |-> i.source, default |-> i.default,
          value |-> NULL] : i \in TaskInputs(w, t)}]

create_task_output_nodes(g, w, t) ==
    [g EXCEPT !.outputs = @ \cup
        {[task |-> t, id |-> o.id, glob |-> o.glob, value |-> NULL] :
            o \in TaskOutputs(w, t)}]

\* MATCH (t:Task {id}) CREATE (m:Metadata {state: 'WAITING'}): one new node
\* for every Task node that carries the id.
create_task_metadata_node(g, t) ==
    [g EXCEPT !.meta = @ @@ (t :> "WAITING"),
              !.nmeta = (t :> Count(@, t) + Count(g.ntask, t)) @@ @]

\* begins_query: a BEGINS edge when some input source is a workflow input id.
BeginsQuery(g, s) ==
    IF \E i \in InputsOfTask(g, s) : i.source \in WfInputIds
    THEN {s} ELSE {}

\* dependency_query, first half: every task one of whose outputs is a source
\* of an input of s.  The rows that survive the WHERE feed the second half.
Producers(g, s) ==
    {t \in g.tasks : \E i \in InputsOfTask(g, s), o \in OutputsOfTask(g, t) :
                        i.source = o.id}

\* dependency_query, second half: every task one of whose input sources is an
\* output of s.
Consumers(g, s) ==
    {t \in g.tasks : \E i \in InputsOfTask(g, t), o \in OutputsOfTask(g, s) :
                        i.source = o.id}

\* The two halves are one Cypher statement: the second MATCH is evaluated
\* once per row the first half produced, so it adds nothing when the first
\* half matched no producer.
DependencyQuery(g, s) ==
    {<<s, t>> : t \in Producers(g, s)} \cup
    (IF Producers(g, s) # {} THEN {<<t, s>> : t \in Consumers(g, s)} ELSE {})

add_dependencies(g, s) ==
    [g EXCEPT !.begins = @ \cup BeginsQuery(g, s),
              !.depends = @ \cup DependencyQuery(g, s)]

load_task(g, w, t) ==
    add_dependencies(
        create_task_metadata_node(
            create_task_output_nodes(
                create_task_input_nodes(create_task(g, t), w, t), w, t), t), t)

set_task_state(g, t, state) ==
    [g EXCEPT !.meta[t] = state]

set_task_output(g, t, output_id, value) ==
    [g EXCEPT !.outputs =
        {IF o.task = t /\ o.id = output_id THEN [o EXCEPT !.value = value] ELSE o :
            o \in @}]

set_init_tasks_to_ready(g) ==
    [g EXCEPT !.meta =
        [t \in DOMAIN @ |->
            IF t \in g.begins /\ ~(\E p \in g.tasks : <<t, p>> \in g.depends)
            THEN "READY" ELSE @[t]]]

execute_workflow(g) == set_init_tasks_to_ready(g)

\* copy_task_outputs, first statement: inputs of the dependents of t take the
\* value of the output of t they name, when that value is not null.
TaskInputsQuery(g, t) ==
    [g EXCEPT !.inputs =
        {LET src == {o \in OutputsOfTask(g, t) :
                        /\ <<i.task, t>> \in g.depends
                        /\ i.source = o.id
                        /\ o.value # NULL}
         IN IF src # {} THEN [i EXCEPT !.value = (CHOOSE o \in src : TRUE).value]
            ELSE i : i \in @}]

\* The other tasks a dependent d of t depends on.  The pattern binds two
\* different DEPENDS relationships of d, so t itself is not among them.
Siblings(g, d, t) == {x \in g.tasks : <<d, x>> \in g.depends /\ x # t}

\* copy_task_outputs, second statement: a dependent's inputs that are still
\* null take their default once every sibling dependency is COMPLETED.  The
\* pattern has no match for a dependent whose only dependency is t.
DefaultsQuery(g, t) ==
    [g EXCEPT !.inputs =
        {IF /\ <<i.task, t>> \in g.depends
            /\ Siblings(g, i.task, t) # {}
            /\ \A x \in Siblings(g, i.task, t) : g.meta[x] = "COMPLETED"
            /\ i.value = NULL /\ i.default # NULL
         THEN [i EXCEPT !.value = i.default]
         ELSE i : i \in @}]

copy_task_outputs(g, t) == DefaultsQuery(TaskInputsQuery(g, t), t)

set_runnable_tasks_to_ready(g) ==
    [g EXCEPT !.meta =
        [t \in DOMAIN @ |->
            IF /\ InputsOfTask(g, t) # {}
               /\ @[t] = "WAITING"
               /\ \A i \in InputsOfTask(g, t) : i.value # NULL
            THEN "READY" ELSE @[t]]]

initialize_ready_tasks(g) == set_runnable_tasks_to_ready(g)

get_ready_tasks(g) == {t \in g.tasks : g.meta[t] = "READY"}

\* The driver's finalize_task, as the driver interface declares it: "Set task
\* state to 'COMPLETED' and set inputs from source."
gdb_finalize_task(g, t) ==
    copy_task_outputs(set_task_state(g, t, "COMPLETED"), t)

finalize_task(g, t) == initialize_ready_tasks(gdb_finalize_task(g, t))

reset_tasks_metadata(g) ==
    [g EXCEPT !.meta = [t \in DOMAIN @ |-> "WAITING"]]

reset_workflow_id(g, new_id) ==
    [g EXCEPT !.wfid = new_id]

reset_workflow(g, new_id) == reset_workflow_id(reset_tasks_metadata(g), new_id)

set_running_tasks_to_paused(g) ==
    [g EXCEPT !.meta = [t \in DOMAIN @ |-> IF @[t] = "RUNNING" THEN "PAUSED" ELSE @[t]]]

\* A resume that makes every paused task READY.
set_paused_tasks_to_ready(g) ==
    [g EXCEPT !.meta = [t \in DOMAIN @ |-> IF @[t] = "PAUSED" THEN "READY" ELSE @[t]]]

set_paused_tasks_to_running(g) ==
    [g EXCEPT !.meta = [t \in DOMAIN @ |-> IF @[t] = "PAUSED" THEN "RUNNING" ELSE @[t]]]

pause_workflow(g) == set_running_tasks_to_paused(g)

resume_workflow(g) == set_paused_tasks_to_running(g)

\* MATCH (n) DETACH DELETE n
cleanup(g) == EmptyGdb

workflow_loaded(g) == g # EmptyGdb

\* A completion test that is satisfied by one completed task.
some_task_completed(g) == \E t \in g.tasks : g.meta[t] = "COMPLETED"

all_tasks_completed(g) == \A t \in g.tasks : g.meta[t] = "COMPLETED"

workflow_completed(g) == all_tasks_completed(g)

\* ------------------------------------------------------------------------
\* The workflow manager: the task-state update handler.
\* ------------------------------------------------------------------------

MaxRestarts == 2

\* The id of the k-th task created by a restart (ids are fresh uuids).
FreshId(k) == "R" \o ToString(k)

\* How many restarts lie between t and the task of the workflow description
\* it descends from.
RECURSIVE Tries(_, _)
Tries(g, t) ==
    IF \E e \in g.restarts : e[2] = t
    THEN 1 + Tries(g, (CHOOSE e \in g.restarts : e[2] = t)[1])
    ELSE 0

\* restart_task of the driver: a Task node for the new task with state
\* RESTARTED and an edge saying it is the child of the old task.
gdb_restart_task(g, old_task, new_task) ==
    [g EXCEPT !.tasks = @ \cup {new_task},
              !.meta = (new_task :> "RESTARTED") @@ @,
              !.ntask = (new_task :> 1) @@ @,
              !.nmeta = (new_task :> 1) @@ @,
              !.restarts = @ \cup {<<old_task, new_task>>}]

\* restart_task of the workflow interface: the new task, or NULL when the
\* task has no restart left.
NewTask(g, t) ==
    IF Tries(g, t) >= MaxRestarts THEN NULL
    ELSE FreshId(Cardinality(g.restarts) + 1)

restart_task(g, t) ==
    IF NewTask(g, t) = NULL THEN g ELSE gdb_restart_task(g, t, NewTask(g, t))

\* The order in which the store returns tasks: the order of their creation.
TaskOrder(g) ==
    DefinitionOrder \o [k \in 1..Cardinality(g.restarts) |-> FreshId(k)]

ReadySeq(g) ==
    SelectSeq(TaskOrder(g), LAMBDA t : t \in get_ready_tasks(g))

\* The state of the Workflow node.  No operation under src writes it: a
\* workflow reads RUNNING until set_workflow_state is used.
get_workflow_state(g) == g.wfstate

set_workflow_state(g, state) == [g EXCEPT !.wfstate = state]

\* The store of a paused workflow: pause calls pause_workflow and the
\* workflow state becomes PAUSED.
PausedStore(g) == set_workflow_state(pause_workflow(g), "PAUSED")

\* WFUpdate.put, lines 112-116: every output of the task gets its glob, or
\* "temp" when it declares none.
set_task_outputs(g, t) ==
    [g EXCEPT !.outputs =
        {IF o.task = t
         THEN [o EXCEPT !.value = IF o.glob # NULL THEN o.glob ELSE "temp"]
         ELSE o : o \in @}]

\* WFUpdate.put: what one update does to the store, the tasks it hands to the
\* task manager, the workflow state it records (NULL: none) and whether it
\* archives the workflow.
WFUpdate_put(g, t, job_state, task_info) ==
    LET g1 == set_task_state(g, t, job_state)
    IN IF task_info
       THEN IF NewTask(g1, t) = NULL
            THEN [gdb |-> g1, tasks |-> <<>>, status |-> "Failed",
                  archive |-> FALSE]
            ELSE [gdb |-> restart_task(g1, t), tasks |-> <<NewTask(g1, t)>>,
                  status |-> NULL, archive |-> FALSE]
       ELSE IF job_state \in {"COMPLETED", "FAILED"}
            THEN LET g2 == finalize_task(set_task_outputs(g1, t), t)
                     wf_state == get_workflow_state(g2)
                 IN [gdb |-> g2,
                     tasks |-> IF wf_state # "PAUSED" THEN ReadySeq(g2) ELSE <<>>,
                     status |-> NULL,
                     archive |-> workflow_completed(g2) \/ wf_state = "FAILED"]
            ELSE [gdb |-> g1, tasks |-> <<>>, status |-> NULL, archive |-> FALSE]

\* parse_workflow: the steps are added in the order of the description.
RECURSIVE LoadAll(_, _, _)
LoadAll(g, w, order) ==
    IF order = <<>> THEN g
    ELSE LoadAll(load_task(g, w, Head(order)), w, Tail(order))

\* ------------------------------------------------------------------------
\* The scheduler.  A task of a batch is its requirements [nodes, max_runtime];
\* the inventory is the sequence of the node counts of the resources; an
\* allocation is [id_, start_time, max_runtime, nodes] (id_ is the resource).
\* ------------------------------------------------------------------------

Req(nodes, max_runtime) == [nodes |-> nodes, max_runtime |-> max_runtime]

Allocation(id_, start_time, max_runtime, nodes) ==
    [id_ |-> id_, start_time |-> start_time, max_runtime |-> max_runtime,
     nodes |-> nodes]

RECURSIVE rsum(_)
rsum(ns) == IF ns = <<>> THEN 0 ELSE Head(ns) + rsum(Tail(ns))

Min(a, b) == IF a < b THEN a ELSE b

\* An overlap test that only sees the allocations running at instant s.
OverlapsAtStart(a, s, d) ==
    a.start_time <= s /\ s < a.start_time + a.max_runtime

\* [s, s + d) and the interval of allocation a have an instant in common.
Overlaps(a, s, d) ==
    s < a.start_time + a.max_runtime /\ a.start_time < s + d

RECURSIVE calculate_overlap(_, _, _, _)
calculate_overlap(allocs, r, s, d) ==
    IF allocs = <<>> THEN 0
    ELSE (IF Head(allocs).id_ = r /\ Overlaps(Head(allocs), s, d)
          THEN Head(allocs).nodes ELSE 0)
         + calculate_overlap(Tail(allocs), r, s, d)

\* Capacity left on resource r over [s, s + d).
Remaining(resources, allocs, r, s, d) ==
    resources[r] - calculate_overlap(allocs, r, s, d)

RemainingAll(resources, allocs, s, d) ==
    rsum([r \in 1..Len(resources) |-> Remaining(resources, allocs, r, s, d)])

\* A test that wants the nodes of a task on one resource.
fits_one_resource(resources, req) ==
    \E r \in 1..Len(resources) : req.nodes <= resources[r]

fits_requirements(resources, req) == req.nodes <= rsum(resources)

can_run_now(resources, allocs, req, start_time) ==
    req.nodes <= RemainingAll(resources, allocs, start_time, req.max_runtime)

\* The allocations of one task: nodes are taken from the resources in
\* ascending id until the requirement is met.
RECURSIVE allocate_aggregate(_, _, _, _, _, _)
allocate_aggregate(resources, allocs, req, start_time, r, need) ==
    IF need = 0 \/ r > Len(resources) THEN <<>>
    ELSE LET free == Remaining(resources, allocs, r, start_time, req.max_runtime)
             take == Min(need, free)
         IN IF take > 0
            THEN <<Allocation(r, start_time, req.max_runtime, take)>> \o
                 allocate_aggregate(resources, allocs, req, start_time, r + 1,
                                    need - take)
            ELSE allocate_aggregate(resources, allocs, req, start_time, r + 1, need)

allocate(resources, allocs, req, start_time) ==
    allocate_aggregate(resources, allocs, req, start_time, 1, req.nodes)

EndTimeSet(allocs) ==
    {allocs[k].start_time + allocs[k].max_runtime : k \in 1..Len(allocs)}

RECURSIVE SortedSeq(_)
SortedSeq(S) ==
    IF S = {} THEN <<>>
    ELSE LET m == CHOOSE x \in S : \A y \in S : x <= y
         IN <<m>> \o SortedSeq(S \ {m})

get_end_times(allocs) == SortedSeq(EndTimeSet(allocs))

\* An allocator whose next end time is the time it is asked about.
get_same_time(allocs, start_time) == start_time

get_next_end_time(allocs, start_time) ==
    LET later == {t \in EndTimeSet(allocs) : t > start_time}
    IN CHOOSE x \in later : \A y \in later : x <= y

\* The state of one schedule_all call: the allocator's allocations and the
\* allocations property of every task of the batch; passes is the history
\* of the backfill passes (the task that had to wait, its shadow time, the
\* tasks behind it, the allocations made while backfilling them, the tasks
\* left for the next pass and the allocator's allocations after the pass).
NoSched(batch) ==
    [allocs |-> <<>>, out |-> [i \in 1..Len(batch) |-> <<>>], passes |-> <<>>]

Allocated(st, i, new) ==
    [st EXCEPT !.allocs = @ \o new, !.out[i] = new]

\* FCFS: the while loop that moves start_time to the next end time.
RECURSIVE FCFSFindStart(_, _, _, _)
FCFSFindStart(resources, allocs, req, start_time) ==
    IF can_run_now(resources, allocs, req, start_time) THEN start_time
    ELSE FCFSFindStart(resources, allocs, req,
                       get_next_end_time(allocs, start_time))

\* FCFS: the for loop; start_time is carried from one task to the next.
RECURSIVE FCFSLoop(_, _, _, _, _)
FCFSLoop(batch, resources, order, st, start_time) ==
    IF order = <<>> THEN st
    ELSE LET i == Head(order)
             req == batch[i]
         IN IF ~fits_requirements(resources, req)
            THEN FCFSLoop(batch, resources, Tail(order), st, start_time)
            ELSE LET s == FCFSFindStart(resources, st.allocs, req, start_time)
                     new == allocate(resources, st.allocs, req, s)
                 IN FCFSLoop(batch, resources, Tail(order),
                             Allocated(st, i, new), s)

ArrivalOrder(batch) == [i \in 1..Len(batch) |-> i]

FCFS_schedule_all(batch, resources, order) ==
    FCFSLoop(batch, resources, order, NoSched(batch), 0)

\* A sort that puts the later of two tasks of equal max_runtime first.
RECURSIVE SortByRuntimeUnstable(_, _)
SortByRuntimeUnstable(batch, S) ==
    IF S = {} THEN <<>>
    ELSE LET m == CHOOSE x \in S : \A y \in S :
                      \/ batch[x].max_runtime < batch[y].max_runtime
                      \/ batch[x].max_runtime = batch[y].max_runtime /\ x >= y
         IN <<m>> \o SortByRuntimeUnstable(batch, S \ {m})

\* list.sort is stable: equal max_runtime keeps arrival order.
RECURSIVE SortByRuntime(_, _)
SortByRuntime(batch, S) ==
    IF S = {} THEN <<>>
    ELSE LET m == CHOOSE x \in S : \A y \in S :
                      \/ batch[x].max_runtime < batch[y].max_runtime
                      \/ batch[x].max_runtime = batch[y].max_runtime /\ x <= y
         IN <<m>> \o SortByRuntime(batch, S \ {m})

SJF_schedule_all(batch, resources) ==
    FCFS_schedule_all(batch, resources, SortByRuntime(batch, 1..Len(batch)))

\* Backfill: the search for the shadow time among the sorted end times.
RECURSIVE BackfillShadow(_, _, _, _)
BackfillShadow(resources, allocs, req, times) ==
    IF times = <<>> THEN [found |-> FALSE, time |-> 0]
    ELSE IF can_run_now(resources, allocs, req, Head(times))
         THEN [found |-> TRUE, time |-> Head(times)]
         ELSE BackfillShadow(resources, allocs, req, Tail(times))

\* Backfill: the loop over possible_times of one backfill candidate; it goes
\* on to the later times after an allocation.
RECURSIVE BackfillTimes(_, _, _, _, _)
BackfillTimes(batch, resources, i, possible_times, st) ==
    IF possible_times = <<>> THEN st
    ELSE LET time == Head(possible_times)
         IN IF can_run_now(resources, st.allocs, batch[i], time)
            THEN BackfillTimes(batch, resources, i, Tail(possible_times),
                     Allocated(st, i,
                               allocate(resources, st.allocs, batch[i], time)))
            ELSE BackfillTimes(batch, resources, i, Tail(possible_times), st)

\* A backfill loop that takes the times from the shadow time on as possible
\* starts.
RECURSIVE BackfillRestLate(_, _, _, _, _, _, _)
BackfillRestLate(batch, resources, tasks, times, shadow_time, st, remaining) ==
    IF tasks = <<>> THEN [st |-> st, remaining |-> remaining]
    ELSE LET i == Head(tasks)
             possible_times == SelectSeq(times, LAMBDA time : time >= shadow_time)
             st2 == BackfillTimes(batch, resources, i, possible_times, st)
         IN BackfillRestLate(batch, resources, Tail(tasks), times, shadow_time, st2,
                             IF st2.out[i] = <<>> THEN Append(remaining, i)
                             ELSE remaining)

\* Backfill: the loop over the tasks behind the reserved one.
RECURSIVE BackfillRest(_, _, _, _, _, _, _)
BackfillRest(batch, resources, tasks, times, shadow_time, st, remaining) ==
    IF tasks = <<>> THEN [st |-> st, remaining |-> remaining]
    ELSE LET i == Head(tasks)
             max_runtime == batch[i].max_runtime
             possible_times ==
                 SelectSeq(times, LAMBDA time : (time + max_runtime) < shadow_time)
             st2 == BackfillTimes(batch, resources, i, possible_times, st)
         IN BackfillRest(batch, resources, Tail(tasks), times, shadow_time, st2,
                         IF st2.out[i] = <<>> THEN Append(remaining, i)
                         ELSE remaining)

\* Backfill: one pass of the while loop (current_time is 0): the tasks left
\* for the next pass and the state after this one.
BackfillPass(batch, resources, tasks, st) ==
    LET i == Head(tasks)
        req == batch[i]
    IN IF ~fits_requirements(resources, req)
       THEN [tasks |-> Tail(tasks), st |-> st]
       ELSE IF can_run_now(resources, st.allocs, req, 0)
       THEN [tasks |-> Tail(tasks),
             st |-> Allocated(st, i, allocate(resources, st.allocs, req, 0))]
       ELSE LET times == get_end_times(st.allocs)
                sh == BackfillShadow(resources, st.allocs, req, times)
                st1 == IF sh.found
                       THEN Allocated(st, i,
                                allocate(resources, st.allocs, req, sh.time))
                       ELSE st
                r == BackfillRest(batch, resources, Tail(tasks),
                                  <<0>> \o times, sh.time, st1, <<>>)
                pass == [reserved |-> i, found |-> sh.found,
                         shadow_time |-> sh.time,
                         backfilled |-> SubSeq(r.st.allocs,
                                               Len(st1.allocs) + 1,
                                               Len(r.st.allocs)),
                         candidates |-> Tail(tasks),
                         remaining |-> r.remaining,
                         after |-> r.st.allocs]
            IN [tasks |-> r.remaining,
                st |-> [r.st EXCEPT !.passes = Append(@, pass)]]

\* Backfill: the while loop.
RECURSIVE BackfillLoop(_, _, _, _)
BackfillLoop(batch, resources, tasks, st) ==
    IF tasks = <<>> THEN st
    ELSE LET p == BackfillPass(batch, resources, tasks, st)
         IN BackfillLoop(batch, resources, p.tasks, p.st)

Backfill_schedule_all(batch, resources) ==
    BackfillLoop(batch, resources, ArrivalOrder(batch), NoSched(batch))

\* ------------------------------------------------------------------------
\* State.
\* ------------------------------------------------------------------------

VARIABLES
    wf,           \* the workflow description being run
    gdb,          \* the graph store
    lastOp,       \* the graph-store operation applied last (history)
    batch,        \* scheduler: the tasks of the request, in arrival order
    resources,    \* scheduler: the resource inventory
    result,       \* scheduler: what schedule_all left behind
    started,      \* WFM: the start request has been handled
    wfStatus,     \* WFM: the workflow state recorded in the workflow database
    tarball,      \* WFM: archives/{wf_id}.tgz exists
    gdbAlive,     \* WFM: the graph store process of the workflow is running
    wfmPc,        \* WFM: "idle", or "tar" inside archive_workflow
    submit_queue, \* TM: tasks ready to be submitted
    job_queue,    \* TM: jobs that are being monitored
    tmPc,         \* TM: "idle", or the part of check_tasks being run
    pollIdx,      \* TM: position of the for loop of update_jobs
    backend,      \* the workload manager: job id -> state of the job
    submits,      \* history: task id -> number of submit calls to the backend
    emitLog,      \* history: task id -> the states the TM reported upstream
    WORKFLOW_PAUSED, \* WFM (wf_manager.py): the pause flag
    SAVED_TASK,   \* WFM (wf_manager.py): the task saved while paused, or NULL
    lastReq,      \* history: the lifecycle request handled last
    tmCancel,     \* history: what the cancel requests to the TM found and did
    wfmUp,        \* the workflow manager answers the requests of the TM
    ackLog,       \* history: task id -> the reported states the WFM answered 200
    lsfQuery,     \* history: the queries that found a state string without an
                  \* entry in bee_states, and what query_job made of the last one
    threads       \* TM: the local variables of the interval job's thread and
                  \* of the thread handling a cancel request

gsVars == <<wf, gdb, lastOp>>

schedVars == <<batch, resources, result>>

wfmVars == <<started, wfStatus, tarball, gdbAlive, wfmPc>>

tmVars == <<job_queue, tmPc, pollIdx, backend, submits, emitLog>>

jobVars == <<WORKFLOW_PAUSED, SAVED_TASK, lastReq, tmCancel>>

linkVars == <<wfmUp, ackLog, lsfQuery, threads>>

vars == <<gsVars, schedVars, wfmVars, submit_queue, tmVars, jobVars, linkVars>>

\* The workflow manager after the workflow was submitted (WFList.post).
WfmIdle ==
    /\ started = FALSE
    /\ wfStatus = "Pending"
    /\ tarball = FALSE
    /\ gdbAlive = TRUE
    /\ wfmPc = "idle"
    /\ wfmUp = [up |-> TRUE, outages |-> 0]

\* The task manager after start-up.
TmIdle ==
    /\ submit_queue = <<>>
    /\ job_queue = <<>>
    /\ tmPc = "idle"
    /\ pollIdx = 0
    /\ backend = <<>>
    /\ submits = [t \in TaskIds |-> 0]
    /\ emitLog = [t \in TaskIds |-> <<>>]
    /\ ackLog = [t \in TaskIds |-> {}]
    /\ lsfQuery = [n |-> 0]
    /\ threads = [tick |-> [job |-> NULL, error |-> FALSE],
                  cancel |-> [pc |-> "idle", n |-> 0, idx |-> 0, job |-> NULL,
                              error |-> FALSE]]

\* wf_manager.py after import, and no lifecycle or cancel request so far.
JobsIdle ==
    /\ WORKFLOW_PAUSED = FALSE
    /\ SAVED_TASK = NULL
    /\ lastReq = [op |-> "none"]
    /\ tmCancel = [n |-> 0, calls |-> {}, queue |-> <<>>, submits |-> <<>>,
                   emits |-> <<>>]

\* The scheduler before any request.
SchedIdle ==
    /\ batch = <<>>
    /\ resources = <<>>
    /\ result = [algo |-> "none"]

\* The graph store before a workflow is loaded.
GsIdle ==
    /\ wf = "chain"
    /\ gdb = EmptyGdb
    /\ lastOp = <<"init">>

\* ------------------------------------------------------------------------
\* SpecGS: the graph-store interface driven directly, operations in any
\* order a caller of WorkflowInterface can issue them.
\* ------------------------------------------------------------------------

MaxResets == 1

InitGS ==
    /\ wf \in Shapes
    /\ gdb = EmptyGdb
    /\ lastOp = <<"init">>
    /\ SchedIdle
    /\ WfmIdle
    /\ TmIdle
    /\ JobsIdle

GsLoadTask ==
    \E t \in TaskIds \ gdb.tasks :
        /\ gdb' = load_task(gdb, wf, t)
        /\ lastOp' = <<"load_task", t>>
        /\ UNCHANGED <<wf, schedVars, jobVars, linkVars, wfmVars, submit_queue, tmVars>>

GsExecuteWorkflow ==
    /\ gdb.tasks # {}
    /\ gdb' = execute_workflow(gdb)
    /\ lastOp' = <<"execute_workflow">>
    /\ UNCHANGED <<wf, schedVars, jobVars, linkVars, wfmVars, submit_queue, tmVars>>

\* A caller moves a READY task to RUNNING and a RUNNING task to an end state.
GsSetTaskState ==
    \E t \in gdb.tasks, s \in {"RUNNING", "COMPLETED", "FAILED"} :
        /\ \/ gdb.meta[t] = "READY" /\ s = "RUNNING"
           \/ gdb.meta[t] = "RUNNING" /\ s \in {"COMPLETED", "FAILED"}
        /\ gdb' = set_task_state(gdb, t, s)
        /\ lastOp' = <<"set_task_state", t>>
        /\ UNCHANGED <<wf, schedVars, jobVars, linkVars, wfmVars, submit_queue, tmVars>>

GsSetTaskOutput ==
    \E o \in gdb.outputs :
        /\ gdb.meta[o.task] \in {"COMPLETED", "FAILED"}
        /\ o.value = NULL
        /\ gdb' = set_task_output(gdb, o.task, o.id,
                                  IF o.glob # NULL THEN o.glob ELSE "temp")
        /\ lastOp' = <<"set_task_output", o.task>>
        /\ UNCHANGED <<wf, schedVars, jobVars, linkVars, wfmVars, submit_queue, tmVars>>

GsFinalizeTask ==
    \E t \in gdb.tasks :
        /\ gdb.meta[t] \in {"COMPLETED", "FAILED"}
        /\ gdb' = finalize_task(gdb, t)
        /\ lastOp' = <<"finalize_task", t>>
        /\ UNCHANGED <<wf, schedVars, jobVars, linkVars, wfmVars, submit_queue, tmVars>>

GsInitializeReadyTasks ==
    /\ gdb.tasks # {}
    /\ gdb' = initialize_ready_tasks(gdb)
    /\ lastOp' = <<"initialize_ready_tasks">>
    /\ UNCHANGED <<wf, schedVars, jobVars, linkVars, wfmVars, submit_queue, tmVars>>

GsResetWorkflow ==
    /\ gdb.tasks # {}
    /\ gdb.wfid < MaxResets
    /\ gdb' = reset_workflow(gdb, gdb.wfid + 1)
    /\ lastOp' = <<"reset_workflow", gdb.wfid + 1>>
    /\ UNCHANGED <<wf, schedVars, jobVars, linkVars, wfmVars, submit_queue, tmVars>>

NextGS ==
    \/ GsLoadTask
    \/ GsExecuteWorkflow
    \/ GsSetTaskState
    \/ GsSetTaskOutput
    \/ GsFinalizeTask
    \/ GsInitializeReadyTasks
    \/ GsResetWorkflow

SpecGS == InitGS /\ [][NextGS]_vars

\* ------------------------------------------------------------------------
\* SpecSched: one scheduling request (a batch and an inventory) answered by
\* one of the algorithms.
\* ------------------------------------------------------------------------

MaxTasks == 3

MaxNodes == 3

MaxRuntime == 2

Reqs == {Req(n, d) : n \in 1..MaxNodes, d \in 1..MaxRuntime}

Batches == UNION {[1..k -> Reqs] : k \in 0..MaxTasks}

Inventories == {<<2>>, <<1, 2>>}

InitSched ==
    /\ GsIdle
    /\ batch \in Batches
    /\ resources \in Inventories
    /\ result = [algo |-> "none"]
    /\ WfmIdle
    /\ TmIdle
    /\ JobsIdle

Answer(algo, st) ==
    [algo |-> algo, allocs |-> st.allocs, out |-> st.out, passes |-> st.passes]

SchedFCFS ==
    /\ result.algo = "none"
    /\ result' = Answer("fcfs",
                        FCFS_schedule_all(batch, resources, ArrivalOrder(batch)))
    /\ UNCHANGED <<gsVars, jobVars, linkVars, batch, resources, wfmVars, submit_queue, tmVars>>

SchedSJF ==
    /\ result.algo = "none"
    /\ result' = Answer("sjf", SJF_schedule_all(batch, resources))
    /\ UNCHANGED <<gsVars, jobVars, linkVars, batch, resources, wfmVars, submit_queue, tmVars>>

SchedBackfill ==
    /\ result.algo = "none"
    /\ result' = Answer("backfill", Backfill_schedule_all(batch, resources))
    /\ UNCHANGED <<gsVars, jobVars, linkVars, batch, resources, wfmVars, submit_queue, tmVars>>

NextSched ==
    \/ SchedFCFS
    \/ SchedSJF
    \/ SchedBackfill

SpecSched == InitSched /\ [][NextSched]_vars

\* ------------------------------------------------------------------------
\* SpecBackfill: Backfill.schedule_all on batches of one task more than
\* MaxTasks whose runtimes are 1 or one more than MaxRuntime, on the
\* inventory of three nodes: the batches in which two tasks run, a third
\* waits for both and a fourth is a backfill candidate.
\* ------------------------------------------------------------------------

LongBatches ==
    [1..(MaxTasks + 1) -> {Req(n, d) : n \in 1..MaxNodes, d \in {1, MaxRuntime + 1}}]

InitBackfill ==
    /\ GsIdle
    /\ batch \in LongBatches
    /\ resources = <<1, 2>>
    /\ result = [algo |-> "none"]
    /\ WfmIdle
    /\ TmIdle
    /\ JobsIdle

NextBackfill ==
    \/ SchedBackfill

SpecBackfill == InitBackfill /\ [][NextBackfill]_vars

\* ------------------------------------------------------------------------
\* LiveSched: the loops of the schedule_all functions, one pass of a loop
\* at a time; result holds the local variables of the running call.
\* ------------------------------------------------------------------------

\* FCFS.schedule_all and SJF.schedule_all (which calls it on the sorted
\* copy) begin: allocator, start_time = 0, and the task list to walk.
LoopFCFSBegin ==
    \E algo \in {"fcfs", "sjf"}, tasks \in Batches, inventory \in Inventories :
        /\ result.algo = "none"
        /\ batch' = tasks
        /\ resources' = inventory
        /\ result' = [algo |-> algo, pc |-> "for",
                      tasks |-> IF algo = "fcfs" THEN ArrivalOrder(tasks)
                                ELSE SortByRuntime(tasks, 1..Len(tasks)),
                      start_time |-> 0, st |-> NoSched(tasks)]
        /\ UNCHANGED <<gsVars, jobVars, linkVars, wfmVars, submit_queue, tmVars>>

\* FCFS: the for loop takes the next task; a task that does not fit the
\* inventory is skipped.
LoopFCFSFor ==
    /\ result.algo \in {"fcfs", "sjf"}
    /\ result.pc = "for"
    /\ result.tasks # <<>>
    /\ result' = IF ~fits_requirements(resources, batch[Head(result.tasks)])
                 THEN [result EXCEPT !.tasks = Tail(@)]
                 ELSE [result EXCEPT !.pc = "while"]
    /\ UNCHANGED <<gsVars, jobVars, linkVars, batch, resources, wfmVars,
                   submit_queue, tmVars>>

\* FCFS: one test of the while loop, then its body or the allocation.
LoopFCFSWhile ==
    LET i == Head(result.tasks)
        st == result.st
    IN /\ result.algo \in {"fcfs", "sjf"}
       /\ result.pc = "while"
       /\ result' =
             IF can_run_now(resources, st.allocs, batch[i], result.start_time)
             THEN [result EXCEPT
                      !.st = Allocated(st, i, allocate(resources, st.allocs,
                                                       batch[i], result.start_time)),
                      !.tasks = Tail(@), !.pc = "for"]
             ELSE [result EXCEPT
                      !.start_time = get_next_end_time(st.allocs, @)]
       /\ UNCHANGED <<gsVars, jobVars, linkVars, batch, resources, wfmVars,
                      submit_queue, tmVars>>

\* Backfill.schedule_all begins: the copy of the task list and the allocator.
LoopBackfillBegin ==
    \E tasks \in Batches, inventory \in Inventories :
        /\ result.algo = "none"
        /\ batch' = tasks
        /\ resources' = inventory
        /\ result' = [algo |-> "backfill", pc |-> "while",
                      tasks |-> ArrivalOrder(tasks), start_time |-> 0,
                      st |-> NoSched(tasks)]
        /\ UNCHANGED <<gsVars, jobVars, linkVars, wfmVars, submit_queue, tmVars>>

\* Backfill: the head of one pass of the while loop: the task popped is
\* skipped, allocated now, or given its reservation at the shadow time, and
\* then the for loop over the tasks behind it begins.
LoopBackfillPass ==
    LET i == Head(result.tasks)
        req == batch[i]
        st == result.st
        times == get_end_times(st.allocs)
        sh == BackfillShadow(resources, st.allocs, req, times)
        st1 == IF sh.found
               THEN Allocated(st, i, allocate(resources, st.allocs, req, sh.time))
               ELSE st
    IN /\ result.algo = "backfill"
       /\ result.pc = "while"
       /\ result.tasks # <<>>
       /\ result' =
             IF ~fits_requirements(resources, req)
             THEN [result EXCEPT !.tasks = Tail(@)]
             ELSE IF can_run_now(resources, st.allocs, req, 0)
             THEN [result EXCEPT
                      !.tasks = Tail(@),
                      !.st = Allocated(st, i, allocate(resources, st.allocs, req, 0))]
             ELSE [algo |-> "backfill", pc |-> "for", tasks |-> Tail(result.tasks),
                   start_time |-> 0,
                   st |-> st1,
                   times |-> <<0>> \o times, shadow_time |-> sh.time,
                   remaining |-> <<>>,
                   pass |-> [reserved |-> i, found |-> sh.found,
                             shadow_time |-> sh.time,
                             base |-> Len(st1.allocs),
                             candidates |-> Tail(result.tasks)]]
       /\ UNCHANGED <<gsVars, jobVars, linkVars, batch, resources, wfmVars,
                      submit_queue, tmVars>>

\* Backfill: one backfill_task of the for loop behind the reserved task.
LoopBackfillCandidate ==
    LET r == BackfillRest(batch, resources, <<Head(result.tasks)>>, result.times,
                          result.shadow_time, result.st, result.remaining)
    IN /\ result.algo = "backfill"
       /\ result.pc = "for"
       /\ result.tasks # <<>>
       /\ result' = [result EXCEPT !.tasks = Tail(@), !.st = r.st,
                                   !.remaining = r.remaining]
       /\ UNCHANGED <<gsVars, jobVars, linkVars, batch, resources, wfmVars,
                      submit_queue, tmVars>>

\* Backfill: the for loop is over: tasks = remaining.
LoopBackfillRemaining ==
    /\ result.algo = "backfill"
    /\ result.pc = "for"
    /\ result.tasks = <<>>
    /\ result' =
          [algo |-> "backfill", pc |-> "while", tasks |-> result.remaining,
           start_time |-> 0,
           st |-> [result.st EXCEPT !.passes = Append(@,
                     [reserved |-> result.pass.reserved,
                      found |-> result.pass.found,
                      shadow_time |-> result.pass.shadow_time,
                      backfilled |-> SubSeq(result.st.allocs, result.pass.base + 1,
                                            Len(result.st.allocs)),
                      candidates |-> result.pass.candidates,
                      remaining |-> result.remaining,
                      after |-> result.st.allocs])]]
    /\ UNCHANGED <<gsVars, jobVars, linkVars, batch, resources, wfmVars,
                   submit_queue, tmVars>>

\* The loop of the call has no task left: schedule_all returns.
LoopReturn ==
    /\ result.algo \in {"fcfs", "sjf", "backfill"}
    /\ result.pc = IF result.algo = "backfill" THEN "while" ELSE "for"
    /\ result.tasks = <<>>
    /\ result' = [result EXCEPT !.pc = "done"]
    /\ UNCHANGED <<gsVars, jobVars, linkVars, batch, resources, wfmVars,
                   submit_queue, tmVars>>

NextLoops ==
    \/ LoopFCFSBegin
    \/ LoopFCFSFor
    \/ LoopFCFSWhile
    \/ LoopBackfillBegin
    \/ LoopBackfillPass
    \/ LoopBackfillCandidate
    \/ LoopBackfillRemaining
    \/ LoopReturn

\* No call of schedule_all is running; the call names its batch and its
\* inventory.
InitLoops ==
    /\ GsIdle
    /\ batch = <<>>
    /\ resources = <<>>
    /\ result = [algo |-> "none"]
    /\ WfmIdle
    /\ TmIdle
    /\ JobsIdle

\* The scheduler is CPU-only: a call that can take a step takes it.
LiveSched ==
    /\ InitLoops
    /\ [][NextLoops]_vars
    /\ WF_vars(LoopFCFSFor)
    /\ WF_vars(LoopFCFSWhile)
    /\ WF_vars(LoopBackfillPass)
    /\ WF_vars(LoopBackfillCandidate)
    /\ WF_vars(LoopBackfillRemaining)
    /\ WF_vars(LoopReturn)

\* ------------------------------------------------------------------------
\* SpecChoose: the choice of the algorithm for a batch.  The configuration
\* is the keyword arguments load and choose are called with: use_mars is a
\* Python boolean ("True", "False") or the string of one ("'True'",
\* "'False'"), algorithm and default_algorithm are a name or NULL (None).
\* ------------------------------------------------------------------------

AlgorithmNames == {"fcfs", "mars", "backfill", "sjf"}

UseMarsValues == {"True", "False", "'True'", "'False'"}

\* The truth value Python gives a use_mars value: every non-empty string is
\* true.
Truthy(use_mars) == use_mars # "False"

MEDIAN == 2

Configs ==
    [use_mars : UseMarsValues, algorithm : {NULL, "mars", "sjf"},
     mars_task_cnt : {MEDIAN}, default_algorithm : {NULL, "backfill", "sjf"}]

\* load: algorithm_objects after the call (NULL is None).
load(use_mars, algorithm) ==
    [name \in AlgorithmNames |->
        IF name = "mars"
        THEN IF use_mars \in {"'True'", "True"} \/ algorithm = "mars"
             THEN "mars" ELSE NULL
        ELSE name]

\* choose: the object the returned AlgorithmWrapper holds (NULL is None).
choose(tasks, algorithm_objects, use_mars, algorithm, mars_task_cnt, default_algorithm) ==
    LET default == IF default_algorithm # NULL THEN default_algorithm ELSE "fcfs"
        cls1 == algorithm_objects[default]
        cls2 == IF algorithm # NULL THEN algorithm_objects[algorithm] ELSE cls1
    IN IF Truthy(use_mars) /\ Len(tasks) >= mars_task_cnt
       THEN algorithm_objects["mars"] ELSE cls2

SchedChoose ==
    \E c \in Configs :
        LET algorithm_objects == load(c.use_mars, c.algorithm)
        IN /\ result.algo = "none"
           /\ result' = [algo |-> "choose", config |-> c,
                         algorithm_objects |-> algorithm_objects,
                         cls |-> choose(batch, algorithm_objects, c.use_mars,
                                        c.algorithm, c.mars_task_cnt,
                                        c.default_algorithm)]
           /\ UNCHANGED <<gsVars, jobVars, linkVars, batch, resources, wfmVars,
                          submit_queue, tmVars>>

NextChoose ==
    \/ SchedChoose

SpecChoose == InitSched /\ [][NextChoose]_vars

\* The nodes of resource r in use at instant t.
RECURSIVE UsedAt(_, _, _)
UsedAt(allocs, r, t) ==
    IF allocs = <<>> THEN 0
    ELSE (IF /\ Head(allocs).id_ = r
             /\ Head(allocs).start_time <= t
             /\ t < Head(allocs).start_time + Head(allocs).max_runtime
          THEN Head(allocs).nodes ELSE 0) + UsedAt(Tail(allocs), r, t)

RECURSIVE Flatten(_)
Flatten(ss) == IF ss = <<>> THEN <<>> ELSE Head(ss) \o Flatten(Tail(ss))

WithinCapacity(allocs) ==
    \A r \in 1..Len(resources) :
        \A k \in 1..Len(allocs) :
            UsedAt(allocs, r, allocs[k].start_time) <= resources[r]

\* C3: in the timeline FCFS, SJF or Backfill produce, at every instant and for
\* every resource, the nodes of the allocations whose interval contains the
\* instant do not exceed the resource's nodes.  (The load of a resource only
\* rises at the start of an allocation, so the start times are the instants
\* to look at.)
C3_ResourceCapacity ==
    result.algo # "none" =>
        /\ WithinCapacity(result.allocs)
        /\ WithinCapacity(Flatten(result.out))

\* Some task had to wait for an earlier one, and two allocations share a
\* resource at the same instant.
C3_Witness ==
    /\ result.algo # "none"
    /\ \E k \in 1..Len(result.allocs) : result.allocs[k].start_time > 0
    /\ \E k, l \in 1..Len(result.allocs) :
           /\ k # l
           /\ result.allocs[k].id_ = result.allocs[l].id_
           /\ Overlaps(result.allocs[k], result.allocs[l].start_time, 1)

\* ------------------------------------------------------------------------
\* Claims about the graph store (checked under SpecGS).
\* ------------------------------------------------------------------------

SourceMatch(g, a, b) ==
    \E i \in InputsOfTask(g, b), o \in OutputsOfTask(g, a) : i.source = o.id

\* C5: after finalize_task(A) with A COMPLETED, every input i of a dependent
\* B whose source is an output o of A has i.value = o.value, or i.value =
\* i.default when o.value is null, also when A is B's only dependency.
C5_ValuePropagated ==
    \A a \in gdb.tasks :
        (lastOp = <<"finalize_task", a>> /\ gdb.meta[a] = "COMPLETED") =>
            \A i \in gdb.inputs, o \in OutputsOfTask(gdb, a) :
                (<<i.task, a>> \in gdb.depends /\ i.source = o.id) =>
                    i.value = (IF o.value # NULL THEN o.value ELSE i.default)

\* C10: whatever the load order, a DEPENDS edge from B to A exists if and
\* only if some output id of A is the source of some input of B.
C10_EdgeIffSource ==
    \A a \in gdb.tasks, b \in gdb.tasks :
        (<<b, a>> \in gdb.depends) <=> SourceMatch(gdb, a, b)

\* The tasks a caller of execute_workflow or finalize_task gets back and hands
\* to the task manager: every task that is READY in the store.
HandedOver ==
    IF lastOp[1] \in {"execute_workflow", "finalize_task"}
    THEN get_ready_tasks(gdb) ELSE {}

\* C2: whenever a task B is READY and handed to the TM, every task B depends
\* on is in a terminal state and every input port of B has a non-null value
\* or a default.
C2_DependencySafety ==
    \A b \in HandedOver :
        /\ \A a \in gdb.tasks : <<b, a>> \in gdb.depends => gdb.meta[a] \in Terminal
        /\ \A i \in InputsOfTask(gdb, b) : i.value # NULL \/ i.default # NULL

\* ------------------------------------------------------------------------
\* SpecWFM: the workflow manager serving start requests and task-state
\* updates, whatever task manager sends them (updates may repeat and may
\* carry restart information); the task manager only takes tasks from its
\* submit queue.
\* ------------------------------------------------------------------------

MaxQueue == 2

MaxNewTasks == 1

\* The states an update can carry; the handler treats PENDING and every other
\* state that is not COMPLETED or FAILED as it treats RUNNING.
JobStates == {"RUNNING", "COMPLETED", "FAILED"}

InitWFM ==
    /\ wf \in Shapes
    /\ gdb = LoadAll(EmptyGdb, wf, DefinitionOrder)
    /\ lastOp = <<"init">>
    /\ SchedIdle
    /\ WfmIdle
    /\ TmIdle
    /\ JobsIdle

\* JobActions.post: start the workflow and send the ready tasks to the TM
\* (TaskSubmit.post appends them to submit_queue).
WfmStart ==
    /\ ~started
    /\ wfmPc = "idle"
    /\ started' = TRUE
    /\ gdb' = execute_workflow(gdb)
    /\ submit_queue' = submit_queue \o ReadySeq(gdb')
    /\ UNCHANGED <<wf, lastOp, schedVars, jobVars, linkVars, wfStatus, tarball, gdbAlive, wfmPc,
                   tmVars>>

\* The effect of one WFUpdate.put on the workflow manager and on the TM's
\* submit queue (queue is the submit queue as the sender left it).  archive_workflow records 'Archived' first (lines 31-32);
\* the tar and the shutdown of the store follow in WfmArchiveTar.
ApplyPut(out, queue) ==
    /\ gdb' = out.gdb
    /\ submit_queue' = queue \o out.tasks
    /\ wfStatus' = IF out.archive THEN "Archived"
                   ELSE IF out.status # NULL THEN out.status ELSE wfStatus
    /\ wfmPc' = IF out.archive THEN "tar" ELSE "idle"

WfmPut ==
    \E t \in gdb.tasks, job_state \in JobStates, task_info \in BOOLEAN :
        LET out == WFUpdate_put(gdb, t, job_state, task_info)
        IN /\ started
           /\ wfmPc = "idle"
           /\ gdbAlive
           /\ Len(submit_queue) + Len(out.tasks) <= MaxQueue
           /\ task_info => Cardinality(gdb.restarts) < MaxNewTasks
           /\ ApplyPut(out, submit_queue)
           /\ UNCHANGED <<wf, lastOp, schedVars, jobVars, linkVars, started, tarball, gdbAlive,
                          tmVars>>

\* archive_workflow, lines 34-40, and kill_gdb.
WfmArchiveTar ==
    /\ wfmPc = "tar"
    /\ tarball' = TRUE
    /\ gdbAlive' = FALSE
    /\ wfmPc' = "idle"
    /\ UNCHANGED <<gsVars, schedVars, jobVars, linkVars, started, wfStatus, submit_queue, tmVars>>

\* submit_jobs takes the first task of the queue.
WfmTmTakes ==
    /\ submit_queue # <<>>
    /\ submit_queue' = Tail(submit_queue)
    /\ UNCHANGED <<gsVars, schedVars, jobVars, linkVars, wfmVars, tmVars>>

NextWFM ==
    \/ WfmStart
    \/ WfmPut
    \/ WfmArchiveTar
    \/ WfmTmTakes

SpecWFM == InitWFM /\ [][NextWFM]_vars

\* ------------------------------------------------------------------------
\* Spec: the workflow manager, the task manager's periodic check_tasks and
\* the workload manager running one workflow.
\* ------------------------------------------------------------------------

MaxJobs == 4

Init ==
    /\ wf \in Shapes
    /\ gdb = LoadAll(EmptyGdb, wf, DefinitionOrder)
    /\ lastOp = <<"init">>
    /\ SchedIdle
    /\ WfmIdle
    /\ TmIdle
    /\ JobsIdle

\* update_task_state: one PUT to the workflow manager, answered before the
\* task manager goes on.  A workflow manager whose store was shut down, or
\* one that cannot be reached, answers with an error or not at all, which
\* the task manager only prints.
Upstream(t, job_state, queue) ==
    /\ emitLog' = [emitLog EXCEPT ![t] = Append(@, job_state)]
    /\ IF gdbAlive /\ wfmUp.up
       THEN /\ ApplyPut(WFUpdate_put(gdb, t, job_state, FALSE), queue)
            /\ ackLog' = [ackLog EXCEPT ![t] = @ \cup {job_state}]
       ELSE /\ submit_queue' = queue
            /\ UNCHANGED <<gdb, wfStatus, wfmPc, ackLog>>

\* submit_jobs, one pass of the while loop; ok: the workload manager accepts
\* the job.
TmSubmitJob(oks) ==
    \E ok \in oks :
        LET t == Head(submit_queue)
            job_id == Len(backend) + 1
            job_state == IF ok THEN "PENDING" ELSE "SUBMIT_FAIL"
        IN /\ tmPc \in {"idle", "submit"}
           /\ wfmPc = "idle"
           /\ submit_queue # <<>>
           /\ Len(backend) < MaxJobs
           /\ tmPc' = "submit"
           /\ submits' = [submits EXCEPT ![t] = @ + 1]
           /\ IF ok
              THEN /\ backend' = Append(backend, "PENDING")
                   /\ job_queue' = Append(job_queue,
                         [task |-> t, job_id |-> job_id, job_state |-> job_state])
              ELSE UNCHANGED <<backend, job_queue>>
           /\ Upstream(t, job_state, Tail(submit_queue))
           /\ UNCHANGED <<wf, lastOp, schedVars, jobVars, wfmUp, lsfQuery, threads, started, tarball, gdbAlive,
                          pollIdx>>

\* submit_jobs returns when the queue is empty and update_jobs begins.
TmSubmitDone ==
    /\ tmPc \in {"idle", "submit"}
    /\ wfmPc = "idle"
    /\ submit_queue = <<>>
    /\ tmPc' = "poll"
    /\ pollIdx' = 1
    /\ UNCHANGED <<gsVars, schedVars, jobVars, linkVars, wfmVars, submit_queue, job_queue, backend,
                   submits, emitLog>>

RemoveAt(q, k) == SubSeq(q, 1, k - 1) \o SubSeq(q, k + 1, Len(q))

\* update_jobs, one pass of the for loop; ok: the query is answered.  The
\* loop walks the list by position while job_queue.remove shortens it.
TmPollJob(oks) ==
    \E ok \in oks :
        LET job == job_queue[pollIdx]
            job_state == IF ok THEN backend[job.job_id] ELSE "ZOMBIE"
            updated == [job_queue EXCEPT ![pollIdx].job_state = job_state]
        IN /\ tmPc = "poll"
           /\ wfmPc = "idle"
           /\ pollIdx <= Len(job_queue)
           /\ job_queue' = IF job_state \in {"COMPLETED", "CANCELLED", "ZOMBIE"}
                           THEN RemoveAt(updated, pollIdx) ELSE updated
           /\ pollIdx' = pollIdx + 1
           /\ IF job_state # job.job_state
              THEN Upstream(job.task, job_state, submit_queue)
              ELSE UNCHANGED <<gdb, wfStatus, wfmPc, submit_queue, emitLog, ackLog>>
           /\ UNCHANGED <<wf, lastOp, schedVars, jobVars, wfmUp, lsfQuery, threads, started, tarball, gdbAlive,
                          tmPc, backend, submits>>

TmPollDone ==
    /\ tmPc = "poll"
    /\ wfmPc = "idle"
    /\ pollIdx > Len(job_queue)
    /\ tmPc' = "idle"
    /\ pollIdx' = 0
    /\ UNCHANGED <<gsVars, schedVars, jobVars, linkVars, wfmVars, submit_queue, job_queue, backend,
                   submits, emitLog>>

\* The workload manager starts a pending job and ends a running one.
BackendAdvance(ends) ==
    \E j \in 1..Len(backend), s \in {"RUNNING"} \cup ends :
        /\ \/ backend[j] = "PENDING" /\ s = "RUNNING"
           \/ backend[j] = "RUNNING" /\ s \in ends
        /\ backend' = [backend EXCEPT ![j] = s]
        /\ UNCHANGED <<gsVars, schedVars, jobVars, linkVars, wfmVars, submit_queue, job_queue,
                       tmPc, pollIdx, submits, emitLog>>

\* TaskActions.delete of the task manager: the for loop walks job_queue by
\* position while job_queue.remove shortens it.  k: the position of the loop;
\* the result is what is left of the queue and the job ids a cancel was
\* issued for.
RECURSIVE TaskActions_delete(_, _, _)
TaskActions_delete(queue, k, calls) ==
    IF k > Len(queue) THEN [job_queue |-> queue, calls |-> calls]
    ELSE TaskActions_delete(RemoveAt(queue, k), k + 1,
                            calls \cup {queue[k].job_id})

MaxCancels == 1

\* TaskActions.delete, handled by a request thread between two steps of the
\* interval job: the jobs the loop reaches are cancelled at the workload
\* manager and leave job_queue; submit_queue is not touched.
TmCancel ==
    LET out == TaskActions_delete(job_queue, 1, {})
    IN /\ tmCancel.n < MaxCancels
       /\ job_queue' = out.job_queue
       /\ backend' = [j \in DOMAIN backend |->
                        IF j \in out.calls /\ backend[j] \in {"PENDING", "RUNNING"}
                        THEN "CANCELLED" ELSE backend[j]]
       /\ tmCancel' = [n |-> tmCancel.n + 1, calls |-> tmCancel.calls \cup out.calls,
                       queue |-> submit_queue, submits |-> submits,
                              emits |-> emitLog]
       /\ UNCHANGED <<gsVars, schedVars, wfmVars, submit_queue, tmPc, pollIdx,
                      submits, emitLog, WORKFLOW_PAUSED, SAVED_TASK, lastReq,
                             linkVars>>

Next ==
    \/ WfmStart
    \/ WfmArchiveTar
    \/ TmSubmitJob(BOOLEAN)
    \/ TmSubmitDone
    \/ TmPollJob(BOOLEAN)
    \/ TmPollDone
    \/ BackendAdvance({"COMPLETED", "FAILED"})
    \/ TmCancel

Spec == Init /\ [][Next]_vars

\* The same system with a workload manager that accepts every submission,
\* answers every query and completes every job, and with a fair scheduling of
\* the start request, of the archiving, of the task manager's interval job
\* (check_tasks runs every 5 seconds) and of the workload manager.
NextLive ==
    \/ WfmStart
    \/ WfmArchiveTar
    \/ TmSubmitJob({TRUE})
    \/ TmSubmitDone
    \/ TmPollJob({TRUE})
    \/ TmPollDone
    \/ BackendAdvance({"COMPLETED"})

LiveSpec ==
    /\ Init
    /\ [][NextLive]_vars
    /\ WF_vars(WfmStart)
    /\ WF_vars(WfmArchiveTar)
    /\ WF_vars(TmSubmitJob({TRUE}))
    /\ WF_vars(TmSubmitDone)
    /\ WF_vars(TmPollJob({TRUE}))
    /\ WF_vars(TmPollDone)
    /\ WF_vars(BackendAdvance({"COMPLETED"}))

\* LSFWorker: the table of LSF states for translation to BEE states.
bee_states ==
    [PEND |-> "PENDING", RUN |-> "RUNNING", DONE |-> "COMPLETED",
     QUIT |-> "FAILED", PSUSP |-> "PAUSED", USUSP |-> "PAUSED",
     SSUSP |-> "PAUSED"]

\* The state strings bjobs may print: those of the table and two that have
\* no entry in it.
LsfStates == DOMAIN bee_states \cup {"EXIT", "UNKWN"}

\* LSFWorker.query_job on the state string raw of the bjobs output:
\* self.bee_states[raw] raises KeyError when raw has no entry.
query_job(raw) ==
    IF raw \in DOMAIN bee_states
    THEN [raises |-> FALSE, job_state |-> bee_states[raw]]
    ELSE [raises |-> TRUE]

MaxUnmapped == 1

\* update_jobs with the LSF worker, one pass of the for loop in which bjobs
\* prints a state string without an entry in bee_states: the exception of
\* query_job leaves update_jobs and ends the tick, the entry and the entries
\* behind it are as they were.  (A string with an entry is TmPollJob.)
TmPollLsf ==
    \E raw \in LsfStates :
        LET out == query_job(raw)
        IN /\ tmPc = "poll"
           /\ wfmPc = "idle"
           /\ pollIdx <= Len(job_queue)
           /\ lsfQuery.n < MaxUnmapped
           /\ out.raises
           /\ lsfQuery' = [n |-> lsfQuery.n + 1, raw |-> raw, out |-> out]
           /\ tmPc' = "idle"
           /\ pollIdx' = 0
           /\ UNCHANGED <<gsVars, schedVars, wfmVars, submit_queue, job_queue,
                          backend, submits, emitLog, jobVars, wfmUp, ackLog,
                          threads>>

\* The system of LiveSpec, without its fairness, with the LSF worker.
NextLsf ==
    \/ NextLive
    \/ TmPollLsf

SpecLsf == Init /\ [][NextLsf]_vars

MaxOutages == 1

\* The workflow manager stops answering (its process is down or cannot be
\* reached): requests.put in update_task_state gets no 200 response.
WfmOutage ==
    /\ started
    /\ wfmPc = "idle"
    /\ wfmUp.up
    /\ wfmUp.outages < MaxOutages
    /\ wfmUp' = [up |-> FALSE, outages |-> wfmUp.outages + 1]
    /\ UNCHANGED <<gsVars, schedVars, wfmVars, submit_queue, tmVars, jobVars, ackLog,
                   lsfQuery, threads>>

\* The workflow manager answers again.
WfmRecover ==
    /\ ~wfmUp.up
    /\ wfmUp' = [wfmUp EXCEPT !.up = TRUE]
    /\ UNCHANGED <<gsVars, schedVars, wfmVars, submit_queue, tmVars, jobVars, ackLog,
                   lsfQuery, threads>>

\* The fair system of LiveSpec with a workflow manager that may stop
\* answering for a while and always comes back.
NextDeliver ==
    \/ NextLive
    \/ WfmOutage
    \/ WfmRecover

LiveDeliver ==
    /\ Init
    /\ [][NextDeliver]_vars
    /\ WF_vars(WfmStart)
    /\ WF_vars(WfmArchiveTar)
    /\ WF_vars(TmSubmitJob({TRUE}))
    /\ WF_vars(TmSubmitDone)
    /\ WF_vars(TmPollJob({TRUE}))
    /\ WF_vars(TmPollDone)
    /\ WF_vars(BackendAdvance({"COMPLETED"}))
    /\ WF_vars(WfmRecover)

\* The store after the same update is applied a second time (a request that
\* finds the store shut down by the first one changes nothing).
PutTwice(g, t, job_state, task_info) ==
    LET first == WFUpdate_put(g, t, job_state, task_info)
    IN IF first.archive THEN first.gdb
       ELSE WFUpdate_put(first.gdb, t, job_state, task_info).gdb

\* C6: applying the same (task_id, state) update twice in a row leaves the
\* graph store (task states, port values, task nodes) as applying it once,
\* for every state and also for updates carrying restart information.
C6_IdempotentUpdates ==
    (started /\ gdbAlive /\ wfmPc = "idle") =>
        \A t \in gdb.tasks, job_state \in JobStates, task_info \in BOOLEAN :
            PutTwice(gdb, t, job_state, task_info)
                = WFUpdate_put(gdb, t, job_state, task_info).gdb

\* ------------------------------------------------------------------------
\* Claims about the running system (checked under Spec).
\* ------------------------------------------------------------------------

\* C1: the backend submit operation is called at most once for every task id
\* (no restart_task event occurs in these runs).
C1_NoDoubleSubmit ==
    \A t \in TaskIds : submits[t] <= 1

\* C4: once the TM has reported a terminal state (COMPLETED, FAILED or
\* CANCELLED) for a task id, it reports no further state for that task id.
C4_StateMonotonicity ==
    \A t \in TaskIds :
        \A k \in 1..Len(emitLog[t]) :
            emitLog[t][k] \in Terminal => k = Len(emitLog[t])

C8_ArchivedHasTarball ==
    wfStatus = "Archived" => tarball

\* C9: a workflow started once, whose jobs the workload manager all
\* completes and whose updates the WFM all accepts, eventually has every task
\* COMPLETED and is Archived; tasks without input ports included.
C9_EventuallyArchived ==
    <>(/\ wfStatus = "Archived"
       /\ \A t \in TaskIds : t \in gdb.tasks /\ gdb.meta[t] = "COMPLETED")

\* ------------------------------------------------------------------------
\* Claims about single graph-store operations (checked under SpecGS).
\* ------------------------------------------------------------------------

\* load_task on a store that may carry the constraint of
\* constrain_tasks_unique (ASSERT t.id IS UNIQUE).  With the constraint the
\* CREATE of a second Task node with the same id is refused, the transaction
\* function raises and the driver hands the exception to the caller; without
\* it the load runs to its end.
LoadTaskOutcome(g, w, t, unique) ==
    IF unique /\ t \in g.tasks
    THEN [gdb |-> g, error |-> TRUE]
    ELSE [gdb |-> load_task(g, w, t), error |-> FALSE]

\* C11: loading a task that is already loaded leaves the graph store (task
\* nodes, metadata nodes, edges) as it was and raises no error.
C11_LoadTaskIdempotent ==
    \A t \in gdb.tasks \cap TaskIds, unique \in BOOLEAN :
        LoadTaskOutcome(gdb, wf, t, unique) = [gdb |-> gdb, error |-> FALSE]

\* C12: after reset_workflow(new_id) every task is WAITING, every input and
\* output port value is null, and the workflow and its tasks carry new_id.
C12_ResetClearsAll ==
    lastOp[1] = "reset_workflow" =>
        /\ \A t \in gdb.tasks : gdb.meta[t] = "WAITING"
        /\ \A i \in gdb.inputs : i.value = NULL
        /\ \A o \in gdb.outputs : o.value = NULL
        /\ gdb.wfid = lastOp[2]

\* The parts of C12 that concern the task states and the workflow id.
C12_StatesAndId ==
    lastOp[1] = "reset_workflow" =>
        /\ \A t \in gdb.tasks : gdb.meta[t] = "WAITING"
        /\ gdb.wfid = lastOp[2]

\* ------------------------------------------------------------------------
\* SpecJobs: the workflow manager of wf_manager.py (start, pause, resume,
\* cancel and the task-state update of JobUpdate) in front of the task
\* manager's submit queue.
\* ------------------------------------------------------------------------

\* The workflow state a client sees: wf_manager.py keeps the pause flag and
\* nothing else, a workflow that was never started is Pending.
WorkflowState ==
    IF WORKFLOW_PAUSED THEN "Paused"
    ELSE IF started THEN "Running" ELSE "Pending"

\* JobUpdate.put: the store after the update, the tasks handed to the task
\* manager and the task saved.
JobUpdate_put(g, paused, saved, t, job_state) ==
    LET g1 == set_task_state(g, t, job_state)
        g2 == finalize_task(g1, t)
    IN IF job_state # "COMPLETED"
       THEN [gdb |-> g1, tasks |-> <<>>, saved |-> saved]
       ELSE IF paused
            THEN [gdb |-> g2, tasks |-> <<>>, saved |-> t]
            ELSE [gdb |-> g2,
                  tasks |-> IF workflow_completed(g2) THEN <<>> ELSE ReadySeq(g2),
                  saved |-> saved]

\* JobActions.patch.  raises: submit_tasks_tm fails on SAVED_TASK, which is
\* one task where the function iterates over a list of tasks; the exception
\* leaves resume() before SAVED_TASK is cleared.
JobActions_patch(paused, saved, option, raises) ==
    IF option = "pause"
    THEN [paused |-> TRUE, saved |-> saved, tasks |-> <<>>, status |-> 200]
    ELSE IF option = "resume"
    THEN IF paused /\ saved # NULL
         THEN IF raises
              THEN [paused |-> FALSE, saved |-> saved, tasks |-> <<>>,
                    status |-> 500]
              ELSE [paused |-> FALSE, saved |-> NULL, tasks |-> <<saved>>,
                    status |-> 200]
         ELSE [paused |-> FALSE, saved |-> IF paused THEN NULL ELSE saved,
               tasks |-> <<>>, status |-> 200]
    ELSE [paused |-> paused, saved |-> saved, tasks |-> <<>>, status |-> 400]

\* What the history keeps of a request: the request, the answer, the
\* workflow state and the READY tasks the request found, and the request
\* before it with the state and the READY tasks that one found.
Request(op, status) ==
    [op |-> op, status |-> status, state |-> WorkflowState,
     ready |-> get_ready_tasks(gdb),
     prev |-> IF lastReq.op = "none" THEN lastReq
              ELSE [op |-> lastReq.op, state |-> lastReq.state,
                    ready |-> lastReq.ready]]

InitJobs ==
    /\ wf \in JobShapes
    /\ gdb = LoadAll(EmptyGdb, wf, DefinitionOrder)
    /\ lastOp = <<"init">>
    /\ SchedIdle
    /\ WfmIdle
    /\ TmIdle
    /\ JobsIdle

\* JobActions.post.
JobsPost ==
    LET g == execute_workflow(gdb)
    IN /\ Len(submit_queue) + Len(ReadySeq(g)) <= MaxQueue
       /\ started' = TRUE
       /\ gdb' = g
       /\ submit_queue' = submit_queue \o ReadySeq(g)
       /\ lastReq' = Request("start", 200)
       /\ UNCHANGED <<wf, lastOp, schedVars, wfStatus, tarball, gdbAlive, wfmPc,
                      tmVars, WORKFLOW_PAUSED, SAVED_TASK, tmCancel, linkVars>>

JobsPatch ==
    \E option \in {"pause", "resume"}, raises \in BOOLEAN :
        LET out == JobActions_patch(WORKFLOW_PAUSED, SAVED_TASK, option, raises)
        IN /\ raises => (option = "resume" /\ WORKFLOW_PAUSED /\ SAVED_TASK # NULL)
           /\ Len(submit_queue) + Len(out.tasks) <= MaxQueue
           /\ WORKFLOW_PAUSED' = out.paused
           /\ SAVED_TASK' = out.saved
           /\ submit_queue' = submit_queue \o out.tasks
           /\ lastReq' = Request(option, out.status)
           /\ UNCHANGED <<gsVars, schedVars, wfmVars, tmVars, tmCancel, linkVars>>

\* JobUpdate.put for an update the task manager sends: the task manager
\* reports on tasks it was handed, which have left WAITING.
JobsUpdate ==
    \E t \in gdb.tasks, job_state \in JobStates :
        LET out == JobUpdate_put(gdb, WORKFLOW_PAUSED, SAVED_TASK, t, job_state)
        IN /\ started
           /\ gdb.meta[t] # "WAITING"
           /\ Len(submit_queue) + Len(out.tasks) <= MaxQueue
           /\ gdb' = out.gdb
           /\ SAVED_TASK' = out.saved
           /\ submit_queue' = submit_queue \o out.tasks
           /\ lastReq' = Request("update", 200)
           /\ UNCHANGED <<wf, lastOp, schedVars, wfmVars, tmVars,
                          WORKFLOW_PAUSED, tmCancel, linkVars>>

\* JobActions.delete: the cancel request to the task manager, then
\* finalize_workflow when a workflow is loaded.
JobsDelete ==
    LET out == TaskActions_delete(job_queue, 1, {})
    IN /\ job_queue' = out.job_queue
       /\ gdb' = IF workflow_loaded(gdb) THEN cleanup(gdb) ELSE gdb
       /\ lastReq' = Request("cancel", 202)
       /\ UNCHANGED <<wf, lastOp, schedVars, wfmVars, submit_queue, tmPc,
                      pollIdx, backend, submits, emitLog, WORKFLOW_PAUSED,
                      SAVED_TASK, tmCancel, linkVars>>

NextJobs ==
    \/ JobsPost
    \/ JobsPatch
    \/ JobsUpdate
    \/ JobsDelete
    \/ WfmTmTakes

SpecJobs == InitJobs /\ [][NextJobs]_vars

\* ------------------------------------------------------------------------
\* SpecThreads: the interval job (a thread of BackgroundScheduler) and the
\* thread that handles a cancel request, one statement on job_queue at a
\* time.  task_manager.py takes no lock; a statement on a list is atomic
\* and the threads can be switched between any two of them.
\* ------------------------------------------------------------------------

\* The position of the entry equal to job in the queue, 0 if there is none
\* (job ids are not reused, so it is the entry of the same job id).
IndexOf(queue, job) ==
    IF \E k \in 1..Len(queue) : queue[k].job_id = job.job_id
    THEN CHOOSE k \in 1..Len(queue) :
             /\ queue[k].job_id = job.job_id
             /\ \A m \in 1..(k - 1) : queue[m].job_id # job.job_id
    ELSE 0

\* list.remove(job): the first equal entry leaves the list; ValueError if
\* there is none.
list_remove(queue, job) ==
    IF IndexOf(queue, job) = 0 THEN [raises |-> TRUE, queue |-> queue]
    ELSE [raises |-> FALSE, queue |-> RemoveAt(queue, IndexOf(queue, job))]

\* update_jobs: the for loop takes the next entry of job_queue.
ThPollTake ==
    /\ tmPc = "poll"
    /\ pollIdx <= Len(job_queue)
    /\ threads' = [threads EXCEPT !.tick.job = job_queue[pollIdx]]
    /\ pollIdx' = pollIdx + 1
    /\ tmPc' = "query"
    /\ UNCHANGED <<gsVars, schedVars, wfmVars, submit_queue, job_queue, backend,
                   submits, emitLog, jobVars, wfmUp, ackLog, lsfQuery>>

\* update_jobs: query_task, the new state written into the entry (the dict
\* the loop holds, in the list or not) and reported upstream.
ThPollQuery ==
    LET job == threads.tick.job
        job_state == backend[job.job_id]
        k == IndexOf(job_queue, job)
    IN /\ tmPc = "query"
       /\ wfmPc = "idle"
       /\ threads' = [threads EXCEPT !.tick.job.job_state = job_state]
       /\ job_queue' = IF k = 0 THEN job_queue
                       ELSE [job_queue EXCEPT ![k].job_state = job_state]
       /\ tmPc' = IF job_state \in {"COMPLETED", "CANCELLED", "ZOMBIE"}
                  THEN "remove" ELSE "poll"
       /\ IF job_state # job.job_state
          THEN Upstream(job.task, job_state, submit_queue)
          ELSE UNCHANGED <<gdb, wfStatus, wfmPc, submit_queue, emitLog, ackLog>>
       /\ UNCHANGED <<wf, lastOp, schedVars, jobVars, wfmUp, lsfQuery, started,
                      tarball, gdbAlive, pollIdx, backend, submits>>

\* update_jobs: job_queue.remove(job); a ValueError ends the interval job's
\* run (the scheduler logs it), the rest of the list is not polled.
ThPollRemove ==
    LET out == list_remove(job_queue, threads.tick.job)
    IN /\ tmPc = "remove"
       /\ job_queue' = out.queue
       /\ IF out.raises
          THEN /\ threads' = [threads EXCEPT !.tick.error = TRUE]
               /\ tmPc' = "idle"
               /\ pollIdx' = 0
          ELSE /\ tmPc' = "poll"
               /\ UNCHANGED <<threads, pollIdx>>
       /\ UNCHANGED <<gsVars, schedVars, wfmVars, submit_queue, backend, submits,
                      emitLog, jobVars, wfmUp, ackLog, lsfQuery>>

\* TaskActions.delete: a request thread begins the for loop.
ThCancelBegin ==
    /\ threads.cancel.pc = "idle"
    /\ threads.cancel.n < MaxCancels
    /\ threads' = [threads EXCEPT !.cancel.pc = "loop", !.cancel.idx = 1,
                                  !.cancel.n = @ + 1]
    /\ UNCHANGED <<gsVars, schedVars, wfmVars, submit_queue, tmVars, jobVars,
                   wfmUp, ackLog, lsfQuery>>

\* TaskActions.delete: the for loop takes the next entry of job_queue.
ThCancelTake ==
    /\ threads.cancel.pc = "loop"
    /\ threads.cancel.idx <= Len(job_queue)
    /\ threads' = [threads EXCEPT !.cancel.job = job_queue[threads.cancel.idx],
                                  !.cancel.idx = @ + 1,
                                  !.cancel.pc = "remove"]
    /\ UNCHANGED <<gsVars, schedVars, wfmVars, submit_queue, tmVars, jobVars,
                   wfmUp, ackLog, lsfQuery>>

\* TaskActions.delete: job_queue.remove(job); a ValueError ends the request
\* with an error answer.
ThCancelRemove ==
    LET out == list_remove(job_queue, threads.cancel.job)
    IN /\ threads.cancel.pc = "remove"
       /\ job_queue' = out.queue
       /\ threads' = IF out.raises
                     THEN [threads EXCEPT !.cancel.error = TRUE,
                                          !.cancel.pc = "idle"]
                     ELSE [threads EXCEPT !.cancel.pc = "cancel"]
       /\ UNCHANGED <<gsVars, schedVars, wfmVars, submit_queue, tmPc, pollIdx,
                      backend, submits, emitLog, jobVars, wfmUp, ackLog, lsfQuery>>

\* TaskActions.delete: worker.cancel_task(job_id).
ThCancelCall ==
    LET j == threads.cancel.job.job_id
    IN /\ threads.cancel.pc = "cancel"
       /\ backend' = [backend EXCEPT ![j] =
                         IF @ \in {"PENDING", "RUNNING"} THEN "CANCELLED" ELSE @]
       /\ threads' = [threads EXCEPT !.cancel.pc = "loop"]
       /\ UNCHANGED <<gsVars, schedVars, wfmVars, submit_queue, job_queue, tmPc,
                      pollIdx, submits, emitLog, jobVars, wfmUp, ackLog, lsfQuery>>

\* TaskActions.delete: the for loop is over and the request is answered.
ThCancelEnd ==
    /\ threads.cancel.pc = "loop"
    /\ threads.cancel.idx > Len(job_queue)
    /\ threads' = [threads EXCEPT !.cancel.pc = "idle"]
    /\ UNCHANGED <<gsVars, schedVars, wfmVars, submit_queue, tmVars, jobVars,
                   wfmUp, ackLog, lsfQuery>>

NextThreads ==
    \/ WfmStart
    \/ WfmArchiveTar
    \/ TmSubmitJob({TRUE})
    \/ TmSubmitDone
    \/ ThPollTake
    \/ ThPollQuery
    \/ ThPollRemove
    \/ TmPollDone
    \/ BackendAdvance({"COMPLETED"})
    \/ ThCancelBegin
    \/ ThCancelTake
    \/ ThCancelRemove
    \/ ThCancelCall
    \/ ThCancelEnd

SpecThreads == Init /\ [][NextThreads]_vars

\* ------------------------------------------------------------------------
\* SpecHandover: wf_manager.py asking the scheduler before it hands tasks to
\* the task manager.  The workflow has the first one, two or three tasks of
\* the description; the inventory is what setup_scheduler sent.
\* ------------------------------------------------------------------------

\* setup_scheduler: one resource with the nodes the resource monitor found.
HandoverInventories == {<<0>>, <<1>>, <<2>>}

\* tasks_to_sched: every task asks for one node and a runtime of 1.
tasks_to_sched(tasks) == [k \in 1..Len(tasks) |-> Req(1, 1)]

\* submit_tasks_scheduler: the scheduler's answer for the tasks.
submit_tasks_scheduler(sched_tasks, inventory) ==
    Answer("fcfs", FCFS_schedule_all(sched_tasks, inventory,
                                     ArrivalOrder(sched_tasks)))

\* What the history keeps of a request that asked the scheduler: the tasks
\* it asked for, in the order of the scheduler's answer.
Scheduled(op, tasks) == [op |-> op, tasks |-> tasks]

InitHandover ==
    /\ wf \in Shapes
    /\ \E n \in 1..Len(DefinitionOrder) :
          gdb = LoadAll(EmptyGdb, wf, SubSeq(DefinitionOrder, 1, n))
    /\ lastOp = <<"init">>
    /\ batch = <<>>
    /\ resources \in HandoverInventories
    /\ result = [algo |-> "none"]
    /\ WfmIdle
    /\ TmIdle
    /\ JobsIdle

\* JobActions.post with its request to the scheduler.
HandoverPost ==
    LET g == execute_workflow(gdb)
        tasks == ReadySeq(g)
    IN /\ ~started
       /\ started' = TRUE
       /\ gdb' = g
       /\ batch' = tasks_to_sched(tasks)
       /\ result' = submit_tasks_scheduler(batch', resources)
       /\ submit_queue' = submit_queue \o tasks
       /\ lastReq' = Scheduled("start", tasks)
       /\ UNCHANGED <<wf, lastOp, resources, wfStatus, tarball, gdbAlive, wfmPc,
                      tmVars, WORKFLOW_PAUSED, SAVED_TASK, tmCancel, linkVars>>

\* JobUpdate.put with its request to the scheduler, for an update about a
\* job of the task manager's job_queue.
HandoverUpdate ==
    \E k \in 1..Len(job_queue), job_state \in {"RUNNING", "COMPLETED"} :
        LET t == job_queue[k].task
            out == JobUpdate_put(gdb, WORKFLOW_PAUSED, SAVED_TASK, t, job_state)
        IN /\ job_state # job_queue[k].job_state
           /\ job_queue' = IF job_state = "COMPLETED" THEN RemoveAt(job_queue, k)
                           ELSE [job_queue EXCEPT ![k].job_state = job_state]
           /\ emitLog' = [emitLog EXCEPT ![t] = Append(@, job_state)]
           /\ gdb' = out.gdb
           /\ SAVED_TASK' = out.saved
           /\ submit_queue' = submit_queue \o out.tasks
           /\ IF out.tasks # <<>>
              THEN /\ batch' = tasks_to_sched(out.tasks)
                   /\ result' = submit_tasks_scheduler(batch', resources)
                   /\ lastReq' = Scheduled("update", out.tasks)
              ELSE UNCHANGED <<batch, result, lastReq>>
           /\ UNCHANGED <<wf, lastOp, resources, wfmVars, tmPc, pollIdx, backend,
                          submits, WORKFLOW_PAUSED, tmCancel, linkVars>>

\* submit_jobs, one pass of the while loop, with a workload manager that
\* accepts the job; JobUpdate.put records the initial state.
HandoverSubmit ==
    LET t == Head(submit_queue)
        job_id == Len(backend) + 1
    IN /\ submit_queue # <<>>
       /\ Len(backend) < MaxJobs
       /\ submit_queue' = Tail(submit_queue)
       /\ submits' = [submits EXCEPT ![t] = @ + 1]
       /\ backend' = Append(backend, "PENDING")
       /\ job_queue' = Append(job_queue,
             [task |-> t, job_id |-> job_id, job_state |-> "PENDING"])
       /\ emitLog' = [emitLog EXCEPT ![t] = Append(@, "PENDING")]
       /\ gdb' = JobUpdate_put(gdb, WORKFLOW_PAUSED, SAVED_TASK, t, "PENDING").gdb
       /\ UNCHANGED <<wf, lastOp, schedVars, wfmVars, tmPc, pollIdx, jobVars,
                      linkVars>>

NextHandover ==
    \/ HandoverPost
    \/ HandoverUpdate
    \/ HandoverSubmit

SpecHandover == InitHandover /\ [][NextHandover]_vars

\* ------------------------------------------------------------------------
\* Claims about the lifecycle requests (checked under SpecJobs).
\* ------------------------------------------------------------------------

\* A resume was handled right after a pause that found the workflow Running.
PauseThenResume ==
    /\ lastReq.op = "resume"
    /\ lastReq.prev.op = "pause"
    /\ lastReq.prev.state = "Running"

\* C13: pause immediately followed by resume on a Running workflow leaves the
\* workflow Running with exactly the READY tasks it had before the pause;
\* the same holds of pause_workflow followed by resume_workflow on the store.
C13_PauseResume ==
    /\ get_ready_tasks(resume_workflow(pause_workflow(gdb))) = get_ready_tasks(gdb)
    /\ PauseThenResume =>
          /\ WorkflowState = "Running"
          /\ get_ready_tasks(gdb) = lastReq.prev.ready

\* A pause and a resume were handled while one task was READY and another
\* was RUNNING.
C13_Witness ==
    /\ PauseThenResume
    /\ get_ready_tasks(gdb) # {}
    /\ \E t \in gdb.tasks : gdb.meta[t] = "RUNNING"

\* A step that handles the resume of a paused workflow.
ResumeStep ==
    /\ WORKFLOW_PAUSED
    /\ ~WORKFLOW_PAUSED'
    /\ lastReq'.op = "resume"

\* The tasks a step appends to the task manager's submit queue.
Appended ==
    IF Len(submit_queue') > Len(submit_queue)
    THEN {submit_queue'[k] : k \in (Len(submit_queue) + 1)..Len(submit_queue')}
    ELSE {}

\* C15: a resume hands to the task manager exactly the tasks that are READY
\* in the store at that moment, the tasks that became ready during the pause
\* included.
C15_ResumeHandsReady ==
    [][ResumeStep => Appended = get_ready_tasks(gdb)]_vars

\* The case of C15 in which A and B completed during the pause and made C
\* ready: the resume hands C to the task manager.
C15_ReadyDuringPause ==
    [][(/\ ResumeStep
        /\ gdb.tasks = TaskIds
        /\ gdb.meta["A"] = "COMPLETED" /\ gdb.meta["B"] = "COMPLETED"
        /\ gdb.meta["C"] = "READY") => "C" \in Appended]_vars

\* A step that handles a lifecycle request the workflow state machine has no
\* transition for.
InvalidRequestStep ==
    /\ ~WfmTmTakes
    /\ \/ lastReq'.op = "start" /\ WorkflowState # "Pending"
       \/ lastReq'.op = "pause" /\ WorkflowState # "Running"
       \/ lastReq'.op = "resume" /\ WorkflowState # "Paused"

\* C16: a lifecycle request that is not a transition of the workflow state
\* machine is answered with an error and leaves the workflow state, the
\* graph store and the task manager's queues unchanged.
C16_BadTransitionRejected ==
    [][InvalidRequestStep =>
          /\ lastReq'.status >= 400
          /\ WorkflowState' = WorkflowState
          /\ UNCHANGED <<gdb, submit_queue, job_queue>>]_vars

\* The three parts of C16, one per request.
C16_Start ==
    [][(InvalidRequestStep /\ lastReq'.op = "start") =>
          /\ lastReq'.status >= 400
          /\ WorkflowState' = WorkflowState
          /\ UNCHANGED <<gdb, submit_queue, job_queue>>]_vars

C16_Pause ==
    [][(InvalidRequestStep /\ lastReq'.op = "pause") =>
          /\ lastReq'.status >= 400
          /\ WorkflowState' = WorkflowState
          /\ UNCHANGED <<gdb, submit_queue, job_queue>>]_vars

C16_Resume ==
    [][(InvalidRequestStep /\ lastReq'.op = "resume") =>
          /\ lastReq'.status >= 400
          /\ WorkflowState' = WorkflowState
          /\ UNCHANGED <<gdb, submit_queue, job_queue>>]_vars

C16_ResumeChangesNothing ==
    [][(InvalidRequestStep /\ lastReq'.op = "resume") =>
          /\ WorkflowState' = WorkflowState
          /\ UNCHANGED <<gdb, submit_queue, job_queue>>]_vars

\* A step that handles the cancel of the workflow.
CancelStep == ~WfmTmTakes /\ lastReq'.op = "cancel" /\ gdb.tasks # {}

\* C17: after a cancel every task that was not in a terminal state is
\* recorded as CANCELLED, the tasks that were terminal keep their state, and
\* the workflow is archived.
C17_CancelMarksAndArchives ==
    [][CancelStep =>
          /\ gdb'.tasks = gdb.tasks
          /\ \A t \in gdb.tasks :
                gdb'.meta[t] = IF gdb.meta[t] \in Terminal THEN gdb.meta[t]
                               ELSE "CANCELLED"
          /\ wfStatus' = "Archived"]_vars

\* ------------------------------------------------------------------------
\* Claims about the update handler of a paused workflow (checked under
\* SpecWFM).
\* ------------------------------------------------------------------------

\* C14: between a pause and the next resume no task is handed to the task
\* manager, whatever update arrives: a state update, a completion that makes
\* successors ready, or an update that asks for a restart.
C14_NoHandoverWhilePaused ==
    (started /\ gdbAlive /\ wfmPc = "idle") =>
        \A t \in gdb.tasks, job_state \in JobStates :
            /\ JobUpdate_put(gdb, TRUE, SAVED_TASK, t, job_state).tasks = <<>>
            /\ \A task_info \in BOOLEAN :
                  WFUpdate_put(PausedStore(gdb), t, job_state, task_info).tasks
                      = <<>>

\* The part of C14 about updates that carry no restart information.
C14_PlainUpdates ==
    (started /\ gdbAlive /\ wfmPc = "idle") =>
        \A t \in gdb.tasks, job_state \in JobStates :
            /\ JobUpdate_put(gdb, TRUE, SAVED_TASK, t, job_state).tasks = <<>>
            /\ WFUpdate_put(PausedStore(gdb), t, job_state, FALSE).tasks = <<>>

\* ------------------------------------------------------------------------
\* Claims about the cancel request to the task manager (checked under Spec).
\* ------------------------------------------------------------------------

\* C18: a task that waits in submit_queue when a cancel request is handled
\* is dropped: no later tick submits it to the backend and no state is
\* reported upstream for it.
C18_CancelDropsWaiting ==
    \A k \in 1..Len(tmCancel.queue) :
        LET t == tmCancel.queue[k]
        IN /\ submits[t] = tmCancel.submits[t]
           /\ emitLog[t] = tmCancel.emits[t]

\* A cancel request has been handled while a task waited in submit_queue.
C18_CancelWhileWaiting ==
    tmCancel.n > 0 /\ tmCancel.queue # <<>>

\* C19: a cancel-all request issues a backend cancel for every entry of
\* job_queue and leaves job_queue empty, whatever the length of the queue.
C19_CancelAllEmptiesQueue ==
    [][tmCancel'.n > tmCancel.n =>
          /\ job_queue' = <<>>
          /\ \A k \in 1..Len(job_queue) :
                job_queue[k].job_id \in tmCancel'.calls]_vars

\* C19 for queues of at most one entry.
C19_ShortQueues ==
    [][(tmCancel'.n > tmCancel.n /\ Len(job_queue) <= 1) =>
          /\ job_queue' = <<>>
          /\ \A k \in 1..Len(job_queue) :
                job_queue[k].job_id \in tmCancel'.calls]_vars

\* ------------------------------------------------------------------------
\* Claims about the delivery of state updates (checked under LiveDeliver).
\* ------------------------------------------------------------------------

\* The task manager has reported state s of task t / the workflow manager
\* has answered 200 to that report.
Reported(t, s) == \E k \in 1..Len(emitLog[t]) : emitLog[t][k] = s

Acknowledged(t, s) == s \in ackLog[t]

\* C20: every job state change the task manager detects is delivered to the
\* workflow manager at least once: an update that was not acknowledged is
\* sent again on a later tick until the workflow manager answers 200.
C20_AtLeastOnceDelivery ==
    \A t \in TaskIds, s \in {"PENDING", "RUNNING", "COMPLETED"} :
        Reported(t, s) ~> Acknowledged(t, s)

\* C20 for the updates sent while the workflow manager answers.
C20_DeliveredWhenUp ==
    [][\A t \in TaskIds :
          (emitLog'[t] # emitLog[t] /\ gdbAlive /\ wfmUp.up) =>
              emitLog'[t][Len(emitLog'[t])] \in ackLog'[t]]_vars

\* ------------------------------------------------------------------------
\* Claims about failed polls and refused submissions (checked under Spec).
\* ------------------------------------------------------------------------

\* The task manager reports ZOMBIE for task t in this step: the query of
\* its job has failed.
PollFails(t) ==
    /\ emitLog'[t] # emitLog[t]
    /\ emitLog'[t][Len(emitLog'[t])] = "ZOMBIE"

InJobQueue(queue, t) == \E k \in 1..Len(queue) : queue[k].task = t

\* C21: a job_queue entry whose backend query fails is marked ZOMBIE and
\* stays in job_queue (it is removed only after three consecutive failed
\* polls, and FAILED is then reported upstream).
C21_ZombieStaysQueued ==
    [][\A t \in TaskIds : PollFails(t) => InJobQueue(job_queue', t)]_vars

\* C21, the part about the report: the state reported upstream for a job
\* that is given up is FAILED, so ZOMBIE is never the last report.
C21_GivenUpReportedFailed ==
    [][\A t \in TaskIds :
          (InJobQueue(job_queue, t) /\ ~InJobQueue(job_queue', t)
              /\ tmCancel' = tmCancel /\ emitLog'[t] # emitLog[t]) =>
          emitLog'[t][Len(emitLog'[t])] \in {"COMPLETED", "CANCELLED", "FAILED"}]_vars

\* The backend refuses the submission of task t in this step, and the
\* workflow manager answers the report.
SubmitRefused(t) ==
    /\ emitLog'[t] # emitLog[t]
    /\ emitLog'[t][Len(emitLog'[t])] = "SUBMIT_FAIL"
    /\ gdbAlive /\ wfmUp.up

\* C23: when the backend refuses the submission of task X, the state
\* recorded for X in the graph store becomes FAILED, and X is not placed in
\* job_queue (so it is never recorded as RUNNING).
C23_RefusedIsFailed ==
    [][\A t \in TaskIds :
          SubmitRefused(t) =>
              /\ gdb'.meta[t] = "FAILED"
              /\ ~InJobQueue(job_queue', t)]_vars

\* C25: in every reachable state, the state stored in the graph store for
\* every task is one of WAITING, READY, RUNNING, PAUSED, COMPLETED, FAILED,
\* CANCELLED, RESTARTED, whatever job states the task manager reports.
C25_StoredStatesCanonical ==
    \A t \in gdb.tasks : gdb.meta[t] \in TaskState

\* ------------------------------------------------------------------------
\* Claims about the LSF adapter (checked under SpecLsf).
\* ------------------------------------------------------------------------

\* This step is a query that found a state string without an entry in the
\* adapter's state table.
UnmappedQuery == lsfQuery'.n > lsfQuery.n

\* C22: when the backend returns a state string that has no entry in the
\* adapter's state table, the result of the query is the state ZOMBIE, and
\* the tick goes on to poll the remaining job_queue entries.
C22_UnmappedIsZombie ==
    [][UnmappedQuery =>
          /\ lsfQuery'.out = [raises |-> FALSE, job_state |-> "ZOMBIE"]
          /\ tmPc' = "poll"]_vars

\* C22 for the state strings that have an entry: query_job answers with
\* the entry.
C22_MappedStates ==
    \A raw \in DOMAIN bee_states :
        query_job(raw) = [raises |-> FALSE, job_state |-> bee_states[raw]]

\* ------------------------------------------------------------------------
\* Claims about restarts (checked under SpecWFM).
\* ------------------------------------------------------------------------

\* The tasks restarted in this step (restart_task has added a child-of edge
\* from them); the handler has stored the state of the update for them.
RestartedNow == {e[1] : e \in gdb'.restarts \ gdb.restarts}

\* C24: the workflow manager calls restart_task and submits a new task only
\* in response to an update whose new state is FAILED; an update with any
\* other state never causes a restart, and when restart_task refuses no new
\* task is submitted and the workflow becomes Failed.
C24_RestartOnlyOnFailed ==
    /\ [][\A t \in RestartedNow : gdb'.meta[t] = "FAILED"]_vars
    /\ [](\A t \in gdb.tasks, job_state \in JobStates :
             NewTask(set_task_state(gdb, t, job_state), t) = NULL =>
                 LET out == WFUpdate_put(gdb, t, job_state, TRUE)
                 IN out.tasks = <<>> /\ out.status = "Failed")

\* The part of C24 about updates that carry no restart information.
C24_PlainUpdatesNeverRestart ==
    \A t \in gdb.tasks, job_state \in JobStates :
        WFUpdate_put(gdb, t, job_state, FALSE).gdb.restarts = gdb.restarts

\* ------------------------------------------------------------------------
\* Claims about the hand-over of scheduled tasks (checked under SpecHandover).
\* ------------------------------------------------------------------------

\* The tasks of the last request to the scheduler that came back with an
\* empty allocations list.
Unallocated ==
    IF result.algo = "none" THEN {}
    ELSE {lastReq.tasks[k] : k \in {j \in 1..Len(lastReq.tasks) :
                                       result.out[j] = <<>>}}

InSubmitQueue(t) == \E k \in 1..Len(submit_queue) : submit_queue[k] = t

C26_AllocatedHandedOver ==
    [][lastReq' # lastReq =>
          \A k \in 1..Len(lastReq'.tasks) :
              result'.out[k] # <<>> => lastReq'.tasks[k] \in Appended]_vars

\* ------------------------------------------------------------------------
\* Claims about the scheduling algorithms (checked under SpecSched).
\* ------------------------------------------------------------------------

\* The allocations made for the tasks before position k of order.
AllocsBefore(out, order, k) ==
    Flatten([j \in 1..(k - 1) |-> out[order[j]]])

\* Task i, scheduled after the allocations earlier, got the earliest start
\* time at which it fits beside them.
EarliestStart(out, earlier, i) ==
    out[i] # <<>> =>
        \A s \in 0..(out[i][1].start_time - 1) :
            ~can_run_now(resources, earlier, batch[i], s)

\* C27: FCFS.schedule_all walks the tasks in arrival order and gives each
\* schedulable task the earliest start time s >= now at which, given the
\* allocations already made for earlier tasks, the remaining capacity over
\* [s, s + max_runtime) fits the task.
C27_FCFSEarliestStart ==
    result.algo = "fcfs" =>
        \A i \in 1..Len(batch) :
            /\ fits_requirements(resources, batch[i]) => result.out[i] # <<>>
            /\ EarliestStart(result.out,
                             AllocsBefore(result.out, ArrivalOrder(batch), i), i)

\* C27 for the first two tasks of a batch.
C27_FirstTwoTasks ==
    result.algo = "fcfs" =>
        \A i \in 1..Min(2, Len(batch)) :
            EarliestStart(result.out,
                          AllocsBefore(result.out, ArrivalOrder(batch), i), i)

\* The arrangement of the positions of b in stable ascending max_runtime
\* order: ascending max_runtime, and arrival order among equal ones.
StableOrder(b) ==
    CHOOSE p \in [1..Len(b) -> 1..Len(b)] :
        /\ \A k, l \in 1..Len(b) : k # l => p[k] # p[l]
        /\ \A k, l \in 1..Len(b) :
              k < l => \/ b[p[k]].max_runtime < b[p[l]].max_runtime
                       \/ /\ b[p[k]].max_runtime = b[p[l]].max_runtime
                          /\ p[k] < p[l]

\* C28: SJF.schedule_all assigns exactly the allocations that
\* FCFS.schedule_all assigns to the same tasks presented in stable ascending
\* max_runtime order (ties keep arrival order), and it leaves the order of
\* the caller's task list unchanged.
C28_SJFIsSortedFCFS ==
    /\ [](result.algo = "sjf" =>
            LET p == StableOrder(batch)
                sorted == [k \in 1..Len(batch) |-> batch[p[k]]]
                fcfs == FCFS_schedule_all(sorted, resources, ArrivalOrder(sorted))
            IN /\ result.allocs = fcfs.allocs
               /\ \A k \in 1..Len(batch) : result.out[p[k]] = fcfs.out[k])
    /\ [][batch' = batch]_vars

\* SJF has scheduled a batch that it had to reorder, in which two tasks of
\* equal max_runtime ask for different nodes, and some task had to wait.
C28_Witness ==
    /\ result.algo = "sjf"
    /\ \E i, j \in 1..Len(batch) :
          i < j /\ batch[i].max_runtime > batch[j].max_runtime
    /\ \E i, j \in 1..Len(batch) :
          /\ i < j
          /\ batch[i].max_runtime = batch[j].max_runtime
          /\ batch[i].nodes # batch[j].nodes
    /\ \E k \in 1..Len(result.allocs) : result.allocs[k].start_time > 0

\* C29: in Backfill.schedule_all, once a task has been reserved at its
\* shadow time S, every task backfilled behind it in that pass gets an
\* interval [t, t + max_runtime) with t >= now (now is 0) and
\* t + max_runtime <= S, and the reserved task's allocation still starts at
\* S when schedule_all returns.
C29_BackfillKeepsReservation ==
    result.algo = "backfill" =>
        \A k \in 1..Len(result.passes) :
            LET pass == result.passes[k]
            IN pass.found =>
                  /\ \A j \in 1..Len(pass.backfilled) :
                        /\ pass.backfilled[j].start_time >= 0
                        /\ pass.backfilled[j].start_time
                              + pass.backfilled[j].max_runtime <= pass.shadow_time
                  /\ result.out[pass.reserved] # <<>>
                  /\ \A j \in 1..Len(result.out[pass.reserved]) :
                        result.out[pass.reserved][j].start_time = pass.shadow_time

\* Backfill has reserved a task at a shadow time and has backfilled another
\* task behind it.
C29_Witness ==
    /\ result.algo = "backfill"
    /\ \E k \in 1..Len(result.passes) :
          /\ result.passes[k].found
          /\ result.passes[k].shadow_time > 0
          /\ result.passes[k].backfilled # <<>>

\* The requirements of task i can be satisfied by the inventory: it has as
\* many nodes as the task asks for.
Satisfiable(i) == batch[i].nodes <= rsum(resources)

\* C30: a task whose requirements can never be satisfied by the inventory
\* is skipped by FCFS, SJF and Backfill without an error: it ends with an
\* empty allocations list, and every other task of the batch is scheduled.
C30_UnschedulableSkipped ==
    result.algo # "none" =>
        \A i \in 1..Len(batch) :
            IF Satisfiable(i) THEN result.out[i] # <<>>
            ELSE result.out[i] = <<>>

\* A batch was scheduled in which a task that cannot be satisfied stands
\* before one that can.
C30_Witness ==
    /\ result.algo # "none"
    /\ \E i, j \in 1..Len(batch) :
          /\ i < j
          /\ ~Satisfiable(i) /\ result.out[i] = <<>>
          /\ Satisfiable(j) /\ result.out[j] # <<>>

\* ------------------------------------------------------------------------
\* Claims about the choice of the algorithm (checked under SpecChoose).
\* ------------------------------------------------------------------------

\* C31: choose(tasks) selects MARS if and only if the number of tasks is at
\* least the threshold and MARS has been loaded; in every other case it
\* selects the configured default algorithm, which is Backfill when no
\* default is configured, so the wrapper always holds a usable algorithm.
C31_ChooseMarsOrDefault ==
    result.algo = "choose" =>
        LET c == result.config
            default == IF c.default_algorithm # NULL THEN c.default_algorithm
                       ELSE "backfill"
        IN /\ result.cls # NULL
           /\ result.cls =
                 IF /\ Len(batch) >= c.mars_task_cnt
                    /\ result.algorithm_objects["mars"] # NULL
                 THEN "mars" ELSE default

\* C31 for a configuration that names a default, names no algorithm and
\* gives use_mars as a boolean.
C31_ConfiguredDefault ==
    result.algo = "choose" =>
        LET c == result.config
        IN (/\ c.default_algorithm # NULL
            /\ c.algorithm = NULL
            /\ c.use_mars \in {"True", "False"}) =>
               result.cls =
                  IF /\ Len(batch) >= c.mars_task_cnt
                     /\ result.algorithm_objects["mars"] # NULL
                  THEN "mars" ELSE c.default_algorithm

\* The wrapper holds no algorithm: MARS was asked for and is not loaded.
C31_WrapperHoldsNone ==
    result.algo = "choose" => result.cls # NULL

\* ------------------------------------------------------------------------
\* Claims about the loops of the scheduler (checked under LiveSched).
\* ------------------------------------------------------------------------

\* C32: FCFS.schedule_all, SJF.schedule_all and Backfill.schedule_all
\* terminate for every finite task batch and every resource inventory,
\* including batches in which a task cannot run at the current time.
C32_ScheduleAllTerminates ==
    (result.algo # "none") ~> (result.algo # "none" /\ result.pc = "done")

\* A call has returned after a task had to wait for a later start time.
C32_Witness ==
    /\ result.algo # "none"
    /\ result.pc = "done"
    /\ \E k \in 1..Len(result.st.allocs) : result.st.allocs[k].start_time > 0

\* The call that has returned leaves what the function computes.
C32_ReturnsTheSchedule ==
    (result.algo # "none" /\ result.pc = "done") =>
        result.st = CASE result.algo = "fcfs" ->
                            FCFS_schedule_all(batch, resources, ArrivalOrder(batch))
                      [] result.algo = "sjf" -> SJF_schedule_all(batch, resources)
                      [] result.algo = "backfill" ->
                            Backfill_schedule_all(batch, resources)

\* ------------------------------------------------------------------------
\* Claims about the threads of the task manager (checked under SpecThreads).
\* ------------------------------------------------------------------------

\* The interval job has taken an entry of job_queue and has not finished
\* its update of the queue for it.
TickInUpdate == tmPc \in {"query", "remove"}

\* The request thread has taken an entry of job_queue and has not removed it.
CancelInUpdate == threads.cancel.pc = "remove"

\* C33: every mutation of submit_queue and job_queue, by the periodic tick
\* and by the request handlers, is performed under the single lock of the
\* task manager, so that no two of these operations interleave inside a
\* queue update: the interval job and a request handler are never both
\* between taking an entry of job_queue and finishing the update for it.
C33_QueueUpdatesExclusive == ~(TickInUpdate /\ CancelInUpdate)

\* C39: under every interleaving of the poll pass with a cancel-all
\* request, neither thread attempts to remove an entry that is no longer in
\* job_queue (no remove raises), so the tick completes its pass.
C39_NoRemoveOfAbsentEntry ==
    /\ ~threads.tick.error
    /\ ~threads.cancel.error

\* Without a cancel request the interval job never removes an absent entry.
C39_TickAloneNeverRaises ==
    threads.cancel.n = 0 => ~threads.tick.error

\* ------------------------------------------------------------------------
\* Claims about execute_workflow and initialize_ready_tasks (checked under
\* SpecGS).
\* ------------------------------------------------------------------------

\* A workflow-entry task: it BEGINS the workflow and depends on no task.
EntryTask(g, t) ==
    t \in g.begins /\ ~(\E p \in g.tasks : <<t, p>> \in g.depends)

\* C34: execute_workflow changes the state only of workflow-entry tasks
\* that are WAITING, setting them to READY; a task in any other state keeps
\* its state, also when execute_workflow is called again on a workflow that
\* is already running.
C34_ExecuteWorkflowFrame ==
    [][lastOp' = <<"execute_workflow">> =>
          \A t \in gdb.tasks :
              gdb'.meta[t] # gdb.meta[t] =>
                  /\ gdb.meta[t] = "WAITING"
                  /\ EntryTask(gdb, t)
                  /\ gdb'.meta[t] = "READY"]_vars

\* On a workflow all of whose tasks are WAITING (the first call), only the
\* entry tasks change, and they become READY.
C34_FirstCallFrame ==
    [][(lastOp' = <<"execute_workflow">>
        /\ \A t \in gdb.tasks : gdb.meta[t] = "WAITING") =>
          \A t \in gdb.tasks :
              gdb'.meta[t] = IF EntryTask(gdb, t) THEN "READY" ELSE "WAITING"]_vars

\* C35: initialize_ready_tasks sets to READY exactly the tasks that are
\* WAITING and all of whose input ports have a non-null value, including
\* WAITING tasks that have no input port at all, and changes the state of
\* no other task.
C35_InitializeReadyExact ==
    [][lastOp' = <<"initialize_ready_tasks">> =>
          \A t \in gdb.tasks :
              gdb'.meta[t] =
                  IF /\ gdb.meta[t] = "WAITING"
                     /\ \A i \in InputsOfTask(gdb, t) : i.value # NULL
                  THEN "READY" ELSE gdb.meta[t]]_vars

\* The same for the tasks that have at least one input port.
C35_ExactForTasksWithInputs ==
    [][lastOp' = <<"initialize_ready_tasks">> =>
          \A t \in gdb.tasks :
              InputsOfTask(gdb, t) # {} =>
                  gdb'.meta[t] =
                      IF /\ gdb.meta[t] = "WAITING"
                         /\ \A i \in InputsOfTask(gdb, t) : i.value # NULL
                      THEN "READY" ELSE gdb.meta[t]]_vars

\* ------------------------------------------------------------------------
\* Claims about the end of the poll pass (checked under Spec).
\* ------------------------------------------------------------------------

\* The step is the return of update_jobs.
PollPassEnds == tmPc = "poll" /\ tmPc' = "idle"

\* C36: after the poll pass of a tick, no job_queue entry whose recorded
\* canonical state is terminal (COMPLETED, FAILED or CANCELLED) remains in
\* job_queue, so a job in a terminal state is not polled again.
C36_NoTerminalEntryAfterPoll ==
    [][PollPassEnds =>
          \A k \in 1..Len(job_queue') :
              job_queue'[k].job_state \notin {"COMPLETED", "FAILED", "CANCELLED"}]_vars

\* An entry polled as COMPLETED or CANCELLED leaves the queue in the same
\* pass of the loop.
C36_CompletedEntryLeaves ==
    [][(tmPc = "poll" /\ tmPc' = "poll" /\ pollIdx' = pollIdx + 1) =>
          \A k \in 1..Len(job_queue') :
              (job_queue'[k].job_id = job_queue[pollIdx].job_id) =>
                  job_queue'[k].job_state \notin {"COMPLETED", "CANCELLED"}]_vars

\* ------------------------------------------------------------------------
\* Claims about the backfill passes (checked under SpecSched).
\* ------------------------------------------------------------------------

\* Task i could be backfilled in pass p: it fits the capacity that is still
\* free after the pass at some time t >= 0 with t + max_runtime <= S.
FitsBeforeShadow(p, i) ==
    \E t \in 0..p.shadow_time :
        /\ t + batch[i].max_runtime <= p.shadow_time
        /\ can_run_now(resources, p.after, batch[i], t)

\* C37: in a Backfill pass with shadow time S, every remaining task for
\* which some time t >= now with t + max_runtime <= S exists at which it fits
\* the free capacity is backfilled in that pass, including the boundary
\* case t + max_runtime = S: no task left for the next pass still fits.
C37_BackfillUpToShadow ==
    result.algo = "backfill" =>
        \A k \in 1..Len(result.passes) :
            LET p == result.passes[k]
            IN p.found =>
                   \A m \in 1..Len(p.remaining) :
                       ~FitsBeforeShadow(p, p.remaining[m])

\* Task i could be backfilled in pass p and end before the shadow time.
FitsStrictlyBeforeShadow(p, i) ==
    \E t \in 0..p.shadow_time :
        /\ t + batch[i].max_runtime < p.shadow_time
        /\ can_run_now(resources, p.after, batch[i], t)

\* No task left for the next pass fits with its end before the shadow time.
C37_BackfillBelowShadow ==
    result.algo = "backfill" =>
        \A k \in 1..Len(result.passes) :
            LET p == result.passes[k]
            IN p.found =>
                   \A m \in 1..Len(p.remaining) :
                       ~FitsStrictlyBeforeShadow(p, p.remaining[m])

\* ------------------------------------------------------------------------
\* Claims about the allocator of Backfill (checked under SpecBackfill).
\* ------------------------------------------------------------------------

\* How often the allocator holds the allocation a.
HeldByAllocator(a) ==
    Cardinality({k \in 1..Len(result.allocs) : result.allocs[k] = a})

\* How often the allocations lists of the tasks hold the allocation a.
HeldByTasks(a) ==
    Cardinality(UNION {{<<i, m>> : m \in {n \in 1..Len(result.out[i]) :
                                            result.out[i][n] = a}} :
                       i \in 1..Len(result.out)})

\* C38: Backfill.schedule_all reserves capacity in its allocator at most
\* once per task: when it returns, the allocations held by the allocator
\* are exactly the allocations stored in the tasks' allocations lists
\* (also when a backfill candidate fits at several candidate times).
C38_AllocatorMatchesTasks ==
    result.algo = "backfill" =>
        \A k \in 1..Len(result.allocs) :
            HeldByAllocator(result.allocs[k]) = HeldByTasks(result.allocs[k])

\* Every allocation a task refers to is held by the allocator.
C38_TasksHeldByAllocator ==
    result.algo = "backfill" =>
        \A i \in 1..Len(result.out) :
            \A m \in 1..Len(result.out[i]) :
                HeldByAllocator(result.out[i][m]) >= HeldByTasks(result.out[i][m])

\* ------------------------------------------------------------------------
\* Claims about updates after a terminal state (checked under SpecWFM).
\* ------------------------------------------------------------------------

\* The tasks whose recorded state is terminal and is different after the step.
TerminalOverwritten ==
    {t \in gdb.tasks : /\ gdb.meta[t] \in {"COMPLETED", "FAILED", "CANCELLED"}
                       /\ gdb'.meta[t] # gdb.meta[t]}

\* C40: once the graph store records a terminal state (COMPLETED, FAILED or
\* CANCELLED) for a task, no later task-state update received by the
\* workflow manager for that task id changes the recorded state.
C40_TerminalStateKept == [][TerminalOverwritten = {}]_vars

\* One update overwrites the terminal state of at most one task, the task
\* whose id it carries.
C40_OnlyTheUpdatedTask == [][Cardinality(TerminalOverwritten) <= 1]_vars

====
